---------------------------- MODULE Spec2Model ----------------------------
(***************************************************************************)
(* The request mediator of the cat-adoption post generator: the generate   *)
(* endpoint of netlify/functions/generate.ts (target "netlify") and of     *)
(* worker/src/index.ts (target "worker"), and the history of the browser   *)
(* client (src/App.tsx) with the admin endpoint that guards its deletion.  *)
(*                                                                         *)
(* Strings that the code takes apart (the token allow-list, tokens) are    *)
(* sequences of one-character strings; strings that are only compared      *)
(* (origins, addresses, methods, paths) are TLA+ strings.  In a header or  *)
(* a token the empty value stands for "absent" as well: the code reads     *)
(* both with || or !x, which treat undefined, null and "" alike.           *)
(***************************************************************************)
EXTENDS Integers, Sequences, FiniteSets, Bags, TLC

VARIABLES
    target,         \* which deployment this instance is: "netlify" | "worker"
    env,            \* process.env / Env: ALLOWED_ORIGIN, ALLOWED_TOKENS
    now,            \* Date.now(), in ms
    tokenBuckets,   \* Map<string, RateKey>, as key -> timestamps
    ipBuckets,      \* Map<string, RateKey>, as key -> timestamps
    slots,          \* the handler invocations in flight, by slot
    last,           \* the invocation that ended most recently, with its response
    log,            \* history: the bag of <<token, ip, t, tokenOk, ipOk>> of every
                    \* limiter check
    client          \* the browser client: its history (component state and
                    \* localStorage), its admin cache, its calls in flight

vars == <<target, env, now, tokenBuckets, ipBuckets, slots, last, log, client>>

-----------------------------------------------------------------------------
(* Program constants *)

WINDOW_MS == 60000

MAX_REQUESTS_PER_WINDOW == 12

\* Number(process.env.MAX_OUTPUT_CHARS || 2500)
DefaultMaxOutputChars == 2500

\* the items the history keeps
HistoryCap == 50

\* ADMIN_CACHE_TTL_MS = 15 * 60 * 1000
ADMIN_CACHE_TTL_MS == 900000

(* Bounds of the model *)

\* the clock advances in steps of TickStep ms, up to MaxClock
TickStep == 20000

MaxClock == 80000

\* limiter checks in a run of the window/keys specifications
MaxChecks == 14

\* limiter checks in a run of the wide specification
MaxChecksWide == 2

\* invocations in flight at once in the concurrency specification
MaxInFlight == 3

\* the browser's clock starts at ClientStart and advances in steps of
\* ClientTickStep ms, up to ClientMaxClock
ClientStart == 300000

ClientTickStep == 300000

ClientMaxClock == 1500000

\* generations and removals in a run of the client specification
MaxGenerations == 3

MaxRemovals == 2

\* generations and removals in a run of the history specification
MaxHistoryItems == 52

MaxHistoryRemovals == 1

-----------------------------------------------------------------------------
(* Text helpers (JavaScript's String.prototype.split / trim, Array.filter) *)

RECURSIVE SplitFrom(_, _, _)
\* raw.split(sep), continued: cur is the piece being read
SplitFrom(raw, sep, cur) ==
    IF raw = <<>> THEN <<cur>>
    ELSE IF Head(raw) = sep
         THEN <<cur>> \o SplitFrom(Tail(raw), sep, <<>>)
         ELSE SplitFrom(Tail(raw), sep, Append(cur, Head(raw)))

Split(raw, sep) == SplitFrom(raw, sep, <<>>)

IsSpace(c) == c \in {" ", "\t", "\n", "\r"}

RECURSIVE TrimStart(_)
TrimStart(s) ==
    IF s # <<>> /\ IsSpace(Head(s)) THEN TrimStart(Tail(s)) ELSE s

RECURSIVE TrimEnd(_)
TrimEnd(s) ==
    IF s # <<>> /\ IsSpace(s[Len(s)]) THEN TrimEnd(SubSeq(s, 1, Len(s) - 1)) ELSE s

Trim(s) == TrimEnd(TrimStart(s))

\* raw.split(",").map((token) => token.trim()).filter(Boolean)
normalizeTokens(raw) ==
    LET parts   == Split(raw, ",")
        trimmed == [i \in 1..Len(parts) |-> Trim(parts[i])]
    IN  SelectSeq(trimmed, LAMBDA p : p # <<>>)

\* a mutant: every token is let through
isAllowedTokenAlways(token, raw) == TRUE

\* a mutant: a token that begins an entry is let through
isAllowedTokenPrefix(token, raw) ==
    LET allowed == normalizeTokens(raw)
    IN  \E i \in 1..Len(allowed) :
           Len(token) <= Len(allowed[i]) /\ SubSeq(allowed[i], 1, Len(token)) = token

\* allowed.includes(token)
isAllowedToken(token, raw) ==
    LET allowed == normalizeTokens(raw)
    IN  \E i \in 1..Len(allowed) : allowed[i] = token

\* a mutant: without a configured origin every origin is let in
getAllowedOriginOpenWhenUnset(requestOrigin, allowed) ==
    IF allowed = "" THEN requestOrigin
    ELSE IF requestOrigin = allowed THEN requestOrigin ELSE ""

\* a mutant: the origin is echoed without the comparison
getAllowedOriginEcho(requestOrigin, allowed) == requestOrigin

\* "" when the header is absent/empty, the setting is empty, or they differ
getAllowedOrigin(requestOrigin, allowed) ==
    IF requestOrigin = "" \/ allowed = "" THEN ""
    ELSE IF requestOrigin = allowed THEN requestOrigin ELSE ""

-----------------------------------------------------------------------------
(* Responses *)

\* a response body: an error object {error}, a result object {title?, text},
\* a plain text, or nothing; title and text are sequences of characters
NoBody ==
    [type |-> "empty", error |-> "", detail |-> "", plain |-> "",
     hasTitle |-> FALSE, title |-> <<>>, text |-> <<>>]

ErrorBody(msg, detail) ==
    [type |-> "error", error |-> msg, detail |-> detail, plain |-> "",
     hasTitle |-> FALSE, title |-> <<>>, text |-> <<>>]

\* netlify: { title: parsed.title, text: parsed.text }
ResultBody(title, text) ==
    [type |-> "result", error |-> "", detail |-> "", plain |-> "",
     hasTitle |-> TRUE, title |-> title, text |-> text]

\* worker: { text: trimmed }
TextBody(text) ==
    [type |-> "result", error |-> "", detail |-> "", plain |-> "",
     hasTitle |-> FALSE, title |-> <<>>, text |-> text]

\* jsonResponse(body, status, origin): ACAO only for a non-empty origin
jsonResponse(body, status, origin) ==
    [status  |-> status,
     headers |-> {<<"Content-Type", "application/json">>}
                 \cup (IF origin # "" THEN {<<"Access-Control-Allow-Origin", origin>>} ELSE {}),
     body    |-> body]

\* the preflight answer for an allowed origin
preflightResponse(origin) ==
    [status  |-> 204,
     headers |-> {<<"Access-Control-Allow-Origin", origin>>,
                  <<"Access-Control-Allow-Methods", "POST, OPTIONS">>,
                  <<"Access-Control-Allow-Headers", "Content-Type">>,
                  <<"Access-Control-Max-Age", "86400">>},
     body    |-> NoBody]

\* the preflight answer for any other origin: a bare 403
preflightForbidden == [status |-> 403, headers |-> {}, body |-> NoBody]

\* the worker's answer for a path other than /generate: new Response of a
\* string, which gets the Content-Type of a text
notFoundResponse ==
    [status |-> 404, headers |-> {<<"Content-Type", "text/plain;charset=UTF-8">>},
     body |-> [type |-> "text", error |-> "", detail |-> "", plain |-> "Not Found",
               hasTitle |-> FALSE, title |-> <<>>, text |-> <<>>]]

\* no response of the mediator: the handler's promise rejected
NoResponse == [status |-> 0, headers |-> {}, body |-> NoBody]

HasHeader(resp, name) == \E h \in resp.headers : h[1] = name

\* the error texts of the two targets (the netlify texts are Korean in the
\* source and are written here by their meaning)
ErrorText(tgt, status) ==
    CASE status = 403 -> IF tgt = "worker" THEN "Origin not allowed" ELSE "origin not allowed (ko)"
      [] status = 405 -> IF tgt = "worker" THEN "Method not allowed" ELSE "method not allowed (ko)"
      [] status = 400 -> IF tgt = "worker" THEN "Invalid JSON" ELSE "invalid request format (ko)"
      [] status = 401 -> IF tgt = "worker" THEN "Unauthorized" ELSE "no access (ko)"
      [] status = 429 -> IF tgt = "worker" THEN "Rate limit exceeded" ELSE "too many requests (ko)"
      [] status = 502 -> IF tgt = "worker" THEN "OpenAI error: " ELSE "OpenAI error (ko): "
      [] OTHER        -> ""

-----------------------------------------------------------------------------
(* Rate limiter *)

\* a mutant: the entry is looked up without regard to the key
EntryOfAny(map, key) ==
    IF DOMAIN map # {} THEN map[CHOOSE k \in DOMAIN map : TRUE]
    ELSE [key |-> key, timestamps |-> <<>>]

\* map.get(key) || { key, timestamps: [] }
Entry(map, key) ==
    IF key \in DOMAIN map THEN map[key] ELSE [key |-> key, timestamps |-> <<>>]

\* a mutant: nothing is pruned
PrunedNever(timestamps, t) == timestamps

\* a mutant: a timestamp exactly one window old is kept
PrunedInclusive(timestamps, t) == SelectSeq(timestamps, LAMBDA x : t - x <= WINDOW_MS)

\* a mutant: timestamps are dropped after half the window
PrunedHalfWindow(timestamps, t) ==
    SelectSeq(timestamps, LAMBDA x : 2 * (t - x) < WINDOW_MS)

\* entry.timestamps.filter((t) => now - t < WINDOW_MS)
Pruned(timestamps, t) == SelectSeq(timestamps, LAMBDA x : t - x < WINDOW_MS)

\* a mutant: the entry is pruned and stored, the instant is not appended
TouchedWithoutPush(map, key, t) ==
    [key |-> Entry(map, key).key, timestamps |-> Pruned(Entry(map, key).timestamps, t)]

\* a mutant: the checks of one instant leave one timestamp
TouchedOncePerInstant(map, key, t) ==
    [key |-> Entry(map, key).key,
     timestamps |->
        Append(SelectSeq(Pruned(Entry(map, key).timestamps, t), LAMBDA x : x # t), t)]

\* a mutant: a check over the ceiling leaves no timestamp
TouchedIfWithin(map, key, t) ==
    [key |-> Entry(map, key).key,
     timestamps |->
        IF Len(Pruned(Entry(map, key).timestamps, t)) < MAX_REQUESTS_PER_WINDOW
        THEN Append(Pruned(Entry(map, key).timestamps, t), t)
        ELSE Pruned(Entry(map, key).timestamps, t)]

\* the entry after filter and push(now)
Touched(map, key, t) ==
    [key |-> Entry(map, key).key,
     timestamps |-> Append(Pruned(Entry(map, key).timestamps, t), t)]

\* map.set(key, entry): the map after withinRateLimit(map, key)
MapAfter(map, key, t) ==
    [k \in DOMAIN map \cup {key} |-> IF k = key THEN Touched(map, key, t) ELSE map[k]]

\* a mutant: the comparison is strict
withinCeilingStrict(n) == n < MAX_REQUESTS_PER_WINDOW

\* entry.timestamps.length <= MAX_REQUESTS_PER_WINDOW
withinCeiling(n) == n <= MAX_REQUESTS_PER_WINDOW

\* the value withinRateLimit(map, key) returns at instant t
withinRateLimit(map, key, t) == withinCeiling(Len(Touched(map, key, t).timestamps))

\* a mutant: the body tells which check failed
rateLimitBodyTelling(tgt, tokenOk, ipOk) ==
    ErrorBody(ErrorText(tgt, 429), IF ~tokenOk THEN "token" ELSE "address")

\* { error: "..." } of the 429: one text, whichever check failed
rateLimitBody(tgt, tokenOk, ipOk) == ErrorBody(ErrorText(tgt, 429), "")

\* a mutant: && in place of ||
rateLimitedBoth(tokenOk, ipOk) == ~tokenOk /\ ~ipOk

\* a mutant: the outcome of the checks is ignored
rateLimitedNever(tokenOk, ipOk) == FALSE

\* if (!tokenOk || !ipOk)
rateLimited(tokenOk, ipOk) == ~tokenOk \/ ~ipOk

-----------------------------------------------------------------------------
(* The upstream request: creativity to temperature.  A temperature is kept *)
(* in hundredths, which is what toFixed(2) leaves of it.                   *)

\* JSON values of the creativity field: absent, null, a number, or a string
\* that is not a numeral
NoCreativity == [kind |-> "undefined", n |-> 0]

NullCreativity == [kind |-> "null", n |-> 0]

Num(n) == [kind |-> "number", n |-> n]

NotANumeral == [kind |-> "text", n |-> 0]

NaN == [kind |-> "NaN", hundredths |-> 0]

Min(a, b) == IF a <= b THEN a ELSE b

Max(a, b) == IF a >= b THEN a ELSE b

\* payload.creativity || 0
creativityOrZero(c) ==
    IF c.kind \in {"undefined", "null"} \/ (c.kind = "number" /\ c.n = 0) THEN Num(0) ELSE c

\* the clamped values at which 0.2 + (0.7 * clamped) / 100 has a 5 in its
\* third decimal and, as a double, lies at or above it; at the others with a
\* 5 there (15, 45, 55, 85, 95) the double lies below
TiesUp == {5, 25, 35, 65, 75}

\* Number((0.2 + (0.7 * clamped) / 100).toFixed(2)), in hundredths
toFixed2(clamped) ==
    LET thousandths == 200 + 7 * clamped
        q == thousandths \div 10
        r == thousandths % 10
    IN  IF r > 5 \/ (r = 5 /\ clamped \in TiesUp) THEN q + 1 ELSE q

\* mapCreativity(value): Math.min(100, value) is NaN for a string that is not
\* a numeral, and NaN goes through Math.max, the arithmetic and toFixed
mapCreativity(value) ==
    IF value.kind = "number"
    THEN [kind |-> "number", hundredths |-> toFixed2(Max(0, Min(100, value.n)))]
    ELSE NaN

\* x || d for a string field: d when the field is missing or empty
orDefault(x, d) == IF x \in {"undefined", ""} THEN d ELSE x

\* netlify: inputs.temperament?.trim() || "Not specified", for a string;
\* worker: inputs.temperament?.length ? inputs.temperament.join(", ")
\* : "Not specified", for a list of tags
temperamentText(tgt, temperament) ==
    IF tgt = "netlify"
    THEN IF temperament = "string" THEN "v" ELSE "Not specified"
    ELSE IF temperament = "array" THEN "v, v" ELSE "Not specified"

\* one line of the prompt: its label and the parts of its value, a missing
\* field interpolated as it is being the text undefined
Line(label, parts) == [label |-> label, parts |-> parts]

\* the lines of buildPrompt(payload), in their order, where it does not throw
buildPrompt(tgt, payload) ==
    LET inputs == payload.inputs
        head == <<Line("Style preset", <<payload.stylePreset>>),
                  Line("Cat name", <<orDefault(inputs.catName, "Not specified")>>),
                  Line("Age", <<orDefault(inputs.ageValue, "Not specified"), inputs.ageUnit>>),
                  Line("Sex", <<inputs.sex>>),
                  Line("Neutered/Spayed", <<inputs.neutered>>),
                  Line("Temperament", <<temperamentText(tgt, inputs.temperament)>>),
                  Line("Rescue story", <<orDefault(inputs.rescueStory, "Not specified")>>),
                  Line("Health notes", <<orDefault(inputs.healthNotes, "Not specified")>>),
                  Line("Special needs", <<orDefault(inputs.specialNeeds, "None")>>)>>
        adoption == <<Line("Adoption requirements",
                           <<orDefault(inputs.adoptionRequirements, "Not specified")>>)>>
        contact == <<Line("Contact", <<orDefault(inputs.contact, "Not specified")>>)>>
    IN  IF tgt = "worker" THEN head \o adoption \o contact ELSE head \o contact

\* what the handler puts in the upstream request
NoSent == [temperature |-> NaN, authorization |-> "", prompt |-> <<>>]

upstreamRequest(tgt, e, payload) ==
    [temperature |-> mapCreativity(creativityOrZero(payload.creativity)),
     authorization |-> e.OPENAI_API_KEY,
     prompt |-> buildPrompt(tgt, payload)]

-----------------------------------------------------------------------------
(* Output: the character budget, the slice and parseTitleAndBody.  Texts   *)
(* are sequences of characters.  Lines 207-225 of generate.ts are stored   *)
(* with one level of string escaping; they are read here unescaped, so     *)
(* that the patterns skip white space after the label and the lines are    *)
(* joined with a newline.                                                  *)

DigitValue(c) ==
    CASE c = "0" -> 0 [] c = "1" -> 1 [] c = "2" -> 2 [] c = "3" -> 3 [] c = "4" -> 4
      [] c = "5" -> 5 [] c = "6" -> 6 [] c = "7" -> 7 [] c = "8" -> 8 [] OTHER -> 9

RECURSIVE NumberOf(_)
\* Number(s) of a string of decimal digits
NumberOf(s) ==
    IF s = <<>> THEN 0
    ELSE 10 * NumberOf(SubSeq(s, 1, Len(s) - 1)) + DigitValue(s[Len(s)])

\* Number(env.MAX_OUTPUT_CHARS || 2500)
maxOutputChars(e) ==
    IF e.MAX_OUTPUT_CHARS = <<>> THEN DefaultMaxOutputChars
    ELSE NumberOf(e.MAX_OUTPUT_CHARS)

\* a mutant: nothing is cut off
sliceNone(text, n) == text

\* text.slice(0, n), n >= 0
slice(text, n) == SubSeq(text, 1, Min(n, Len(text)))

MinOf(S) == CHOOSE x \in S : \A y \in S : x <= y

MaxOf(S) == CHOOSE x \in S : \A y \in S : x >= y

NewlinesOf(text) == {i \in 1..Len(text) : text[i] = "\n"}

NthNewline(text, k) ==
    CHOOSE i \in NewlinesOf(text) : Cardinality({j \in NewlinesOf(text) : j < i}) = k - 1

\* text.split("\n"), by the positions of the newlines
Lines(text) ==
    LET n == Cardinality(NewlinesOf(text))
        from(k) == IF k = 1 THEN 1 ELSE NthNewline(text, k - 1) + 1
        to(k)   == IF k = n + 1 THEN Len(text) ELSE NthNewline(text, k) - 1
    IN  [k \in 1..(n + 1) |-> SubSeq(text, from(k), to(k))]

RECURSIVE Join(_, _)
\* lines.join(sep)
Join(lines, sep) ==
    IF lines = <<>> THEN <<>>
    ELSE IF Len(lines) = 1 THEN lines[1]
    ELSE lines[1] \o <<sep>> \o Join(Tail(lines), sep)

\* the letters of the two labels, for the i flag
Lower(c) ==
    CASE c = "T" -> "t" [] c = "I" -> "i" [] c = "L" -> "l" [] c = "E" -> "e"
      [] c = "B" -> "b" [] c = "O" -> "o" [] c = "D" -> "d" [] c = "Y" -> "y"
      [] OTHER -> c

TitleLabel == <<"t", "i", "t", "l", "e", ":">>

BodyLabel == <<"b", "o", "d", "y", ":">>

\* the label stands in the text at position i, in either case
LabelAt(text, label, i) ==
    /\ i + Len(label) - 1 <= Len(text)
    /\ \A k \in 1..Len(label) : Lower(text[i + k - 1]) = label[k]

LabelStarts(text, label) == {i \in 1..Len(text) : LabelAt(text, label, i)}

\* . does not match a line terminator
IsLineTerminator(c) == c \in {"\n", "\r"}

\* where a greedy \s* that starts at j stops: the first character that is not
\* white space, or one past the end
SkipSpace(text, j) ==
    LET rest == {k \in j..Len(text) : ~IsSpace(text[k])}
    IN  IF rest = {} THEN Len(text) + 1 ELSE MinOf(rest)

\* the last character of the line that holds position k
EndOfLine(text, k) ==
    LET stops == {m \in k..Len(text) : IsLineTerminator(text[m])}
    IN  IF stops = {} THEN Len(text) ELSE MinOf(stops) - 1

\* where (.+) starts for the label at i, 0 if the pattern fails there: after
\* the white space if a character follows; else \s* gives back white space
\* until (.+) finds one that is not a line terminator
titleCaptureStart(text, i) ==
    LET j == i + Len(TitleLabel)
        k == SkipSpace(text, j)
        back == {m \in j..Len(text) : ~IsLineTerminator(text[m])}
    IN  IF k <= Len(text) THEN k
        ELSE IF back = {} THEN 0 ELSE MaxOf(back)

\* text.match(/Title:\s*(.+)/i): found, and the group
titleMatch(text) ==
    LET starts == {i \in LabelStarts(text, TitleLabel) : titleCaptureStart(text, i) # 0}
        at     == titleCaptureStart(text, MinOf(starts))
    IN  IF starts = {} THEN [found |-> FALSE, group |-> <<>>]
        ELSE [found |-> TRUE, group |-> SubSeq(text, at, EndOfLine(text, at))]

\* text.match(/Body:\s*([\s\S]*)/i): found, and the group
bodyMatch(text) ==
    LET starts == LabelStarts(text, BodyLabel)
        at     == SkipSpace(text, MinOf(starts) + Len(BodyLabel))
    IN  IF starts = {} THEN [found |-> FALSE, group |-> <<>>]
        ELSE [found |-> TRUE, group |-> SubSeq(text, at, Len(text))]

\* text.split("\n").filter((line) => line.trim() !== "")
fallbackLines(text) == SelectSeq(Lines(text), LAMBDA line : Trim(line) # <<>>)

\* a mutant: the remaining lines are joined with a blank
bodyFallbackBlank(text) ==
    IF Len(fallbackLines(text)) > 1
    THEN Trim(Join(Tail(fallbackLines(text)), " "))
    ELSE text

\* fallbackLines.length > 1 ? fallbackLines.slice(1).join("\n").trim() : text
bodyFallback(text) ==
    IF Len(fallbackLines(text)) > 1
    THEN Trim(Join(Tail(fallbackLines(text)), "\n"))
    ELSE text

parseTitleAndBody(text) ==
    LET fallbackTitle == IF Len(fallbackLines(text)) > 0
                         THEN Trim(fallbackLines(text)[1]) ELSE <<>>
    IN  IF titleMatch(text).found /\ bodyMatch(text).found
        THEN [title |-> Trim(titleMatch(text).group), text |-> Trim(bodyMatch(text).group)]
        ELSE [title |-> fallbackTitle, text |-> bodyFallback(text)]

\* netlify: data.output_text || data.output?.flatMap(...)...join("\n") || "";
\* worker: data.output_text || ""
rawText(tgt, reply) ==
    IF reply.text # <<>> \/ tgt = "worker" THEN reply.text
    ELSE Join(reply.output, "\n")

\* a mutant: a text without both labels is turned into an upstream failure
successResponseStrict(tgt, trimmed, origin) ==
    IF titleMatch(trimmed).found /\ bodyMatch(trimmed).found
    THEN jsonResponse(ResultBody(parseTitleAndBody(trimmed).title,
                                 parseTitleAndBody(trimmed).text), 200, origin)
    ELSE jsonResponse(ErrorBody(ErrorText(tgt, 502), ""), 502, origin)

\* the 200: netlify { title, text } of parseTitleAndBody(trimmed), worker { text: trimmed }
successResponse(tgt, trimmed, origin) ==
    IF tgt = "netlify"
    THEN jsonResponse(ResultBody(parseTitleAndBody(trimmed).title,
                                 parseTitleAndBody(trimmed).text), 200, origin)
    ELSE jsonResponse(TextBody(trimmed), 200, origin)

-----------------------------------------------------------------------------
(* Requests *)

\* the client address the limiter keys on
clientAddress(tgt, headers) ==
    IF tgt = "netlify"
    THEN IF headers.nfip # "" THEN headers.nfip
         ELSE IF headers.xff # "" THEN headers.xff ELSE "unknown"
    ELSE IF headers.cfip # "" THEN headers.cfip ELSE "unknown"

\* the fields of inputs, every string field being s ("undefined": missing,
\* "": empty, "v": a value) and temperament being missing, a string, a list
\* of tags or an empty list
InputsOf(kind, s, temperament) ==
    [kind |-> kind, temperament |-> temperament, catName |-> s, ageValue |-> s,
     ageUnit |-> s, sex |-> s, neutered |-> s, rescueStory |-> s, healthNotes |-> s,
     specialNeeds |-> s, adoptionRequirements |-> s, contact |-> s]

NoInputs == InputsOf("undefined", "undefined", "undefined")

\* the value of JSON.parse("{}")
EmptyObject ==
    [kind |-> "object", token |-> <<>>, inputs |-> NoInputs, creativity |-> NoCreativity,
     stylePreset |-> "undefined"]

\* a mutant: an unparsable body is read as an empty object
parseBodyLenient(tgt, body) ==
    IF body.kind = "json" THEN [ok |-> TRUE, payload |-> body.payload]
    ELSE [ok |-> TRUE, payload |-> EmptyObject]

\* a mutant: an absent body does not parse, on either target
parseBodyStrict(tgt, body) ==
    IF body.kind = "json" THEN [ok |-> TRUE, payload |-> body.payload]
    ELSE [ok |-> FALSE, payload |-> EmptyObject]

\* netlify: JSON.parse(event.body || "{}"); worker: await request.json()
parseBody(tgt, body) ==
    CASE body.kind = "json"      -> [ok |-> TRUE, payload |-> body.payload]
      [] body.kind = "malformed" -> [ok |-> FALSE, payload |-> EmptyObject]
      [] OTHER                   -> \* absent or empty body
            IF tgt = "netlify" THEN [ok |-> TRUE, payload |-> EmptyObject]
            ELSE [ok |-> FALSE, payload |-> EmptyObject]

\* a mutant: every method is let through
methodNotAllowedNever(method) == FALSE

\* httpMethod !== "POST"
methodNotAllowed(method) == method # "POST"

\* !payload?.token
tokenMissing(payload) == payload.kind = "null" \/ payload.token = <<>>

\* whether buildPrompt(payload) throws a TypeError
buildPromptThrows(tgt, payload) ==
    \/ payload.inputs.kind = "undefined"
    \/ /\ tgt = "netlify"       \* inputs.temperament?.trim()
       /\ payload.inputs.temperament \in {"array", "emptyArray"}
    \/ /\ tgt = "worker"        \* inputs.temperament?.length ? inputs.temperament.join(", ")
       /\ payload.inputs.temperament = "string"

-----------------------------------------------------------------------------
(* History of the limiter and of one invocation *)

NoCheck ==
    [reached |-> FALSE, token |-> <<>>, ip |-> "", t |-> 0, before |-> EmptyBag,
     tokenOk |-> FALSE, ipOk |-> FALSE]

\* an upstream reply: kind "ok" with output_text (text) and the output_text
\* items of output, kind "error" with its error text, or "unreachable"
NoUpstream == [kind |-> "none", text |-> <<>>, output |-> <<>>, error |-> ""]

NoRequest ==
    [method |-> "", path |-> "",
     headers |-> [origin |-> "", nfip |-> "", xff |-> "", cfip |-> ""],
     body |-> [kind |-> "absent", payload |-> EmptyObject]]

IdleSlot ==
    [pc |-> "idle", req |-> NoRequest, origin |-> "", chk |-> NoCheck, calls |-> 0,
     sent |-> NoSent, upstream |-> NoUpstream, stages |-> <<>>]

NoLast ==
    [kind |-> "none", req |-> NoRequest, resp |-> NoResponse, chk |-> NoCheck,
     calls |-> 0, sent |-> NoSent, upstream |-> NoUpstream, stages |-> <<>>]

\* the number of limiter checks so far
Checks == BagCardinality(log)

-----------------------------------------------------------------------------
(* The handler, as the steps between its suspension points.  A step's      *)
(* outcome is a record: what the invocation does next (kind), the response *)
(* it returns if it ends, and the limiter's maps as the step leaves them.  *)

Outcome(kind, resp, tb, ib, chk, stages) ==
    [kind |-> kind, resp |-> resp, tokenBuckets |-> tb, ipBuckets |-> ib,
     chk |-> chk, stages |-> stages]

\* a mutant: the address is not checked once the token's check has failed
ipBucketsAfterShortCircuit(tokenOk, ib, ip, t) ==
    IF tokenOk THEN MapAfter(ib, ip, t) ELSE ib

\* const ipOk = withinRateLimit(ipBuckets, ip) runs whatever tokenOk is: the
\* address's map after the two checks
ipBucketsAfter(tokenOk, ib, ip, t) == MapAfter(ib, ip, t)

\* from the token check to the call of fetch
afterParse(tgt, e, req, origin, payload, tb, ib, lg, t) ==
    IF tokenMissing(payload) \/ ~isAllowedToken(payload.token, e.ALLOWED_TOKENS)
    THEN Outcome("respond", jsonResponse(ErrorBody(ErrorText(tgt, 401), ""), 401, origin),
                 tb, ib, NoCheck, <<"gatekeeper">>)
    ELSE LET ip      == clientAddress(tgt, req.headers)
             tokenOk == withinRateLimit(tb, payload.token, t)
             ipOk    == withinRateLimit(ib, ip, t)
             tb2     == MapAfter(tb, payload.token, t)
             ib2     == ipBucketsAfter(tokenOk, ib, ip, t)
             chk     == [reached |-> TRUE, token |-> payload.token, ip |-> ip, t |-> t,
                         before |-> lg, tokenOk |-> tokenOk, ipOk |-> ipOk]
         IN  IF rateLimited(tokenOk, ipOk)
             THEN Outcome("respond",
                          jsonResponse(rateLimitBody(tgt, tokenOk, ipOk), 429, origin),
                          tb2, ib2, chk, <<"gatekeeper", "limiter">>)
             ELSE IF buildPromptThrows(tgt, payload)
             THEN Outcome("throw", NoResponse, tb2, ib2, chk,
                          <<"gatekeeper", "limiter", "prompt">>)
             ELSE Outcome("fetch", NoResponse, tb2, ib2, chk,
                          <<"gatekeeper", "limiter", "prompt", "upstream">>)

\* from the body parse on
fromParse(tgt, e, req, origin, tb, ib, lg, t) ==
    LET parsed == parseBody(tgt, req.body)
    IN  IF ~parsed.ok
        THEN Outcome("respond", jsonResponse(ErrorBody(ErrorText(tgt, 400), ""), 400, origin),
                     tb, ib, NoCheck, <<"gatekeeper">>)
        ELSE afterParse(tgt, e, req, origin, parsed.payload, tb, ib, lg, t)

\* netlify's handler up to its first suspension point
netlifySync(e, req, tb, ib, lg, t) ==
    LET origin == getAllowedOrigin(req.headers.origin, e.ALLOWED_ORIGIN)
        gate(resp) == Outcome("respond", resp, tb, ib, NoCheck, <<"gatekeeper">>)
    IN  IF req.method = "OPTIONS"
        THEN IF origin = "" THEN gate(preflightForbidden) ELSE gate(preflightResponse(origin))
        ELSE IF origin = ""
        THEN gate(jsonResponse(ErrorBody(ErrorText("netlify", 403), ""), 403, ""))
        ELSE IF methodNotAllowed(req.method)
        THEN gate(jsonResponse(ErrorBody(ErrorText("netlify", 405), ""), 405, origin))
        ELSE fromParse("netlify", e, req, origin, tb, ib, lg, t)

\* the worker's fetch up to await request.json()
workerSync(e, req, tb, ib) ==
    LET origin == getAllowedOrigin(req.headers.origin, e.ALLOWED_ORIGIN)
        gate(resp) == Outcome("respond", resp, tb, ib, NoCheck, <<"gatekeeper">>)
    IN  IF req.method = "OPTIONS"
        THEN IF origin = "" THEN gate(preflightForbidden) ELSE gate(preflightResponse(origin))
        ELSE IF req.path # "/generate"
        THEN gate(notFoundResponse)
        ELSE IF origin = ""
        THEN gate(jsonResponse(ErrorBody(ErrorText("worker", 403), ""), 403, ""))
        ELSE IF methodNotAllowed(req.method)
        THEN gate(jsonResponse(ErrorBody(ErrorText("worker", 405), ""), 405, origin))
        ELSE Outcome("body", NoResponse, tb, ib, NoCheck, <<"gatekeeper">>)

\* the invocation in slot s, for request req, takes the step with outcome o
Settle(s, req, o) ==
    /\ tokenBuckets' = o.tokenBuckets
    /\ ipBuckets' = o.ipBuckets
    /\ log' = IF o.chk.reached
              THEN log (+) SetToBag({<<o.chk.token, o.chk.ip, o.chk.t,
                                        o.chk.tokenOk, o.chk.ipOk>>})
              ELSE log
    /\ CASE o.kind = "respond" ->
              /\ last' = [kind |-> "response", req |-> req, resp |-> o.resp, chk |-> o.chk,
                          calls |-> 0, sent |-> NoSent, upstream |-> NoUpstream,
                          stages |-> o.stages]
              /\ slots' = [slots EXCEPT ![s] = IdleSlot]
         [] o.kind = "throw" ->
              /\ last' = [kind |-> "exception", req |-> req, resp |-> NoResponse,
                          chk |-> o.chk, calls |-> 0, sent |-> NoSent,
                          upstream |-> NoUpstream, stages |-> o.stages]
              /\ slots' = [slots EXCEPT ![s] = IdleSlot]
         [] o.kind = "fetch" ->
              /\ slots' = [slots EXCEPT ![s] =
                              [pc |-> "upstream", req |-> req,
                               origin |-> getAllowedOrigin(req.headers.origin,
                                                           env.ALLOWED_ORIGIN),
                               chk |-> o.chk, calls |-> 1,
                               sent |-> upstreamRequest(target, env, req.body.payload),
                               upstream |-> NoUpstream, stages |-> o.stages]]
              /\ last' = last
         [] OTHER -> \* "body": the worker awaits request.json()
              /\ slots' = [slots EXCEPT ![s] =
                              [pc |-> "body", req |-> req,
                               origin |-> getAllowedOrigin(req.headers.origin,
                                                           env.ALLOWED_ORIGIN),
                               chk |-> NoCheck, calls |-> 0, sent |-> NoSent,
                               upstream |-> NoUpstream, stages |-> o.stages]]
              /\ last' = last
    /\ UNCHANGED <<target, env, now, client>>

-----------------------------------------------------------------------------
(* Actions *)

\* time passes
Tick ==
    /\ now + TickStep <= MaxClock
    /\ now' = now + TickStep
    /\ UNCHANGED <<target, env, tokenBuckets, ipBuckets, slots, last, log, client>>

\* netlify: handler(event), up to the call of fetch
NetlifyHandler(s, req, budget) ==
    /\ target = "netlify"
    /\ slots[s].pc = "idle"
    /\ Checks < budget
    /\ Settle(s, req, netlifySync(env, req, tokenBuckets, ipBuckets, log, now))

\* worker: fetch(request, env), up to await request.json()
WorkerFetch(s, req, budget) ==
    /\ target = "worker"
    /\ slots[s].pc = "idle"
    /\ Checks < budget
    /\ Settle(s, req, workerSync(env, req, tokenBuckets, ipBuckets))

\* worker: request.json() settles; on to the call of fetch
WorkerBodyRead(s) ==
    /\ slots[s].pc = "body"
    /\ Settle(s, slots[s].req,
              fromParse("worker", env, slots[s].req, slots[s].origin,
                        tokenBuckets, ipBuckets, log, now))

\* an invocation ends: its response (or its exception) is what the caller gets
Finish(s, kind, resp, upstream, stages) ==
    /\ last' = [kind |-> kind, req |-> slots[s].req, resp |-> resp, chk |-> slots[s].chk,
                calls |-> slots[s].calls, sent |-> slots[s].sent, upstream |-> upstream,
                stages |-> stages]
    /\ slots' = [slots EXCEPT ![s] = IdleSlot]
    /\ UNCHANGED <<target, env, now, tokenBuckets, ipBuckets, log, client>>

\* the upstream call settles: a response (ok or not), or fetch rejects
UpstreamSettles(s, reply) ==
    /\ slots[s].pc = "upstream"
    /\ IF reply.kind = "unreachable"
       THEN Finish(s, "exception", NoResponse, reply, slots[s].stages)
       ELSE /\ slots' = [slots EXCEPT ![s].pc = IF reply.kind = "ok" THEN "okBody"
                                                ELSE "errBody",
                                      ![s].upstream = reply]
            /\ UNCHANGED <<target, env, now, tokenBuckets, ipBuckets, last, log, client>>

\* if (!openaiRes.ok): await openaiRes.text(), then the 502
ReadErrorText(s) ==
    /\ slots[s].pc = "errBody"
    /\ Finish(s, "response",
              jsonResponse(ErrorBody(ErrorText(target, 502), slots[s].upstream.error),
                           502, slots[s].origin),
              slots[s].upstream, slots[s].stages)

\* await openaiRes.json(), the slice to the budget, then the 200
ReadReply(s) ==
    /\ slots[s].pc = "okBody"
    /\ Finish(s, "response",
              successResponse(target,
                              slice(rawText(target, slots[s].upstream), maxOutputChars(env)),
                              slots[s].origin),
              slots[s].upstream, Append(slots[s].stages, "normalizer"))

-----------------------------------------------------------------------------
(* The browser client (src/App.tsx): the history of generated posts, kept  *)
(* in the component state and in localStorage, and the admin verification  *)
(* that guards its deletion.  A history is the sequence of the ids of its  *)
(* items, newest first.  A handler that awaits a call keeps the history of *)
(* the render it was started in (its closure) across the await.            *)

\* the page is served from the allowed origin
ClientOrigin == "https://cats.example"

\* the elements of a sequence
Range(seq) == {seq[i] : i \in 1..Len(seq)}

\* items.slice(0, n)
Take(items, n) == SubSeq(items, 1, IF Len(items) < n THEN Len(items) ELSE n)

\* a mutant: the new item is appended to the whole history
nextHistoryUncut(nextItem, history) == <<nextItem>> \o history

\* [nextItem, ...history].slice(0, 50)
nextHistory(nextItem, history) == Take(<<nextItem>> \o history, HistoryCap)

\* history.filter((item) => item.id !== id)
withoutItem(history, id) == SelectSeq(history, LAMBDA item : item # id)

\* a mutant: a cached verification never expires
getAdminCacheValidForever(verifiedAt, t) == verifiedAt # 0

\* getAdminCacheValid(): verifiedAt is the cached instant, 0 when there is none
getAdminCacheValid(verifiedAt, t) ==
    IF verifiedAt = 0 THEN FALSE ELSE t - verifiedAt < ADMIN_CACHE_TTL_MS

\* the status the admin endpoint answers to the client's POST of a password
adminStatus(e, origin, password) ==
    IF getAllowedOrigin(origin, e.ALLOWED_ORIGIN) = "" THEN 403
    ELSE IF e.ADMIN_PASSWORD = "" THEN 500
    ELSE IF password = "" \/ password # e.ADMIN_PASSWORD THEN 401
    ELSE 200

\* the outcome of verifyAdmin(password): it resolves when res.ok
verifyAdmin(e, origin, password, reachable) ==
    reachable /\ adminStatus(e, origin, password) = 200

NoGeneration == [pc |-> "idle", history |-> <<>>]

NoAdmin == [pc |-> "idle", op |-> "none", id |-> 0, history |-> <<>>, password |-> ""]

\* the client after its first render, with an empty localStorage and
\* sessionStorage; generated and removed are history: the ids of the items
\* generated and of the items deleted so far, removals the deletions made
NoClient ==
    [history |-> <<>>, stored |-> <<>>, verifiedAt |-> 0, nextId |-> 1,
     gen |-> NoGeneration, adm |-> NoAdmin,
     generated |-> {}, removed |-> {}, removals |-> 0]

ServerUnchanged == UNCHANGED <<target, env, tokenBuckets, ipBuckets, slots, last, log>>

\* handleGenerate, up to await generatePost(...)
HandleGenerate(budget) ==
    /\ client.gen.pc = "idle"            \* the buttons are disabled while loading
    /\ client.nextId <= budget
    /\ client' = [client EXCEPT !.gen = [pc |-> "awaiting", history |-> client.history]]
    /\ UNCHANGED now
    /\ ServerUnchanged

\* generatePost settles: the item is put first and saved, or the error is shown
GenerateSettles(ok) ==
    /\ client.gen.pc = "awaiting"
    /\ client' =
          IF ok
          THEN [client EXCEPT !.history = nextHistory(client.nextId, client.gen.history),
                              !.stored = nextHistory(client.nextId, client.gen.history),
                              !.nextId = client.nextId + 1,
                              !.generated = client.generated \cup {client.nextId},
                              !.gen = NoGeneration]
          ELSE [client EXCEPT !.gen = NoGeneration]
    /\ UNCHANGED now
    /\ ServerUnchanged

\* what a verified clear or deletion does with the history of its closure
removal(op, id, history) == IF op = "clear" THEN <<>> ELSE withoutItem(history, id)

\* the client after setHistory(next); saveHistory(next) of a clear or deletion
Removed(c, op, id, history, seen) ==
    [c EXCEPT !.history = removal(op, id, history),
              !.stored = removal(op, id, history),
              !.removed = c.removed \cup (IF op = "clear" THEN Range(seen) ELSE {id}),
              !.removals = c.removals + 1]

\* handleVerifyAndClearHistory / handleDeleteHistoryItem(id), up to the await
\* of verifyAdmin: with a valid cache the history is changed at once; else
\* the password is asked for ("": the prompt was cancelled or left empty)
HandleRemoval(op, id, password, budget) ==
    /\ client.adm.pc = "idle"
    /\ client.removals < budget
    /\ op = "delete" => id \in Range(client.history)
    /\ client' =
          IF getAdminCacheValid(client.verifiedAt, now)
          THEN Removed(client, op, id, client.history, client.history)
          ELSE IF password = "" THEN client
          ELSE [client EXCEPT !.adm = [pc |-> "awaiting", op |-> op, id |-> id,
                                       history |-> client.history,
                                       password |-> password]]
    /\ UNCHANGED now
    /\ ServerUnchanged

\* verifyAdmin settles: the cache is set and the history changed, or the
\* error is shown
AdminSettles(reachable) ==
    /\ client.adm.pc = "awaiting"
    /\ client' =
          IF verifyAdmin(env, ClientOrigin, client.adm.password, reachable)
          THEN [Removed(client, client.adm.op, client.adm.id, client.adm.history,
                        client.history)
                   EXCEPT !.verifiedAt = now, !.adm = NoAdmin]
          ELSE [client EXCEPT !.adm = NoAdmin]
    /\ UNCHANGED now
    /\ ServerUnchanged

\* time passes in the browser
ClientTick ==
    /\ now + ClientTickStep <= ClientMaxClock
    /\ now' = now + ClientTickStep
    /\ UNCHANGED client
    /\ ServerUnchanged

-----------------------------------------------------------------------------
(* The configurations, requests and upstream replies the model runs on *)

AllowedOrigin == "https://cats.example"

OtherOrigin == "https://evil.example"

\* ALLOWED_TOKENS = "a, b," : the entries a and b, one of them padded, one empty
TheEnv ==
    [ALLOWED_ORIGIN |-> AllowedOrigin,
     ALLOWED_TOKENS |-> <<"a", ",", " ", "b", ",">>,
     OPENAI_API_KEY |-> "sk-key",
     MAX_OUTPUT_CHARS |-> <<>>,
     ADMIN_PASSWORD |-> "pw"]

TokA == <<"a">>

TokB == <<"b">>

TokBad == <<"x">>

\* the tokens of the configured allow-list, as the operator wrote them down
ValidTokens == {TokA, TokB}

AddrX == "203.0.113.7"

AddrY == "198.51.100.9"

\* the platform's forwarded-address headers, carrying address ip ("": none)
Headers(origin, ip) == [origin |-> origin, nfip |-> ip, xff |-> "", cfip |-> ip]

\* inputs with every string field s
FieldsAll(s, temperament) == InputsOf("object", s, temperament)

Fields(temperament) == FieldsAll("v", temperament)

\* a body that parses to an object, with creativity c
JsonWith(token, inputs, c) ==
    [kind |-> "json",
     payload |-> [kind |-> "object", token |-> token, inputs |-> inputs, creativity |-> c,
                  stylePreset |-> "v"]]

Json(token, inputs) == JsonWith(token, inputs, Num(45))

JsonNull ==
    [kind |-> "json",
     payload |-> [kind |-> "null", token |-> <<>>, inputs |-> NoInputs,
                  creativity |-> NoCreativity, stylePreset |-> "undefined"]]

AbsentBody == [kind |-> "absent", payload |-> EmptyObject]

MalformedBody == [kind |-> "malformed", payload |-> EmptyObject]

Request(method, path, origin, ip, body) ==
    [method |-> method, path |-> path, headers |-> Headers(origin, ip), body |-> body]

\* a POST to the endpoint from the allowed origin
Post(ip, body) == Request("POST", "/generate", AllowedOrigin, ip, body)

\* a well-formed generation request
Good(token, ip) == Post(ip, Json(token, Fields("undefined")))

WideBodies ==
    {AbsentBody, MalformedBody, JsonNull,
     Json(<<>>, Fields("string")), Json(TokBad, Fields("string")),
     Json(TokA, NoInputs), Json(TokA, Fields("string")), Json(TokA, Fields("array")),
     Json(TokB, Fields("undefined"))}

WideRequests ==
    {Request(m, p, o, ip, b) :
        m \in {"OPTIONS", "POST", "GET"}, p \in {"/generate", "/admin"},
        o \in {AllowedOrigin, OtherOrigin, ""}, ip \in {AddrX, ""}, b \in WideBodies}

\* one token from one address, with the requests the gatekeeper turns away
WindowRequests ==
    {Good(TokA, AddrX), Post(AddrX, Json(TokBad, Fields("undefined"))),
     Post(AddrX, MalformedBody), Post(AddrX, Json(TokA, NoInputs)),
     Request("GET", "/generate", AllowedOrigin, AddrX, Json(TokA, Fields("undefined"))),
     Request("POST", "/generate", OtherOrigin, AddrX, Json(TokA, Fields("undefined")))}

\* two tokens and two addresses
KeysRequests == {Good(TokA, AddrX), Good(TokB, AddrX), Good(TokA, AddrY)}

\* an upstream reply with output_text text
Ok(text) == [kind |-> "ok", text |-> text, output |-> <<>>, error |-> ""]

Failed(err) == [kind |-> "error", text |-> <<>>, output |-> <<>>, error |-> err]

Unreachable == [kind |-> "unreachable", text |-> <<>>, output |-> <<>>, error |-> ""]

Replies == {Ok(<<"M", "e", "e", "t">>), Failed("insufficient_quota"), Unreachable}

Targets == {"netlify", "worker"}

-----------------------------------------------------------------------------
(* Upstream texts and settings of the reply specification *)

\* three lines without labels
MochiLines ==
    <<"M", "e", "e", "t", " ", "M", "o", "c", "h", "i", "\n", "M", "o", "c",
      "h", "i", " ", "i", "s", " ", "g", "e", "n", "t", "l", "e", ".", "\n",
      "M", "o", "c", "h", "i", " ", "l", "o", "v", "e", "s", " ", "n", "a",
      "p", "s", ".">>

\* its first line
MochiTitle ==
    <<"M", "e", "e", "t", " ", "M", "o", "c", "h", "i">>

\* its other lines
MochiRest ==
    <<"M", "o", "c", "h", "i", " ", "i", "s", " ", "g", "e", "n", "t", "l",
      "e", ".", "\n", "M", "o", "c", "h", "i", " ", "l", "o", "v", "e", "s",
      " ", "n", "a", "p", "s", ".">>

\* a JSON object with title and body; its \n is the two characters of the JSON escape
MochiJson ==
    <<"{", "\"", "t", "i", "t", "l", "e", "\"", ":", "\"", "M", "o", "c",
      "h", "i", " ", "n", "e", "e", "d", "s", " ", "a", " ", "h", "o", "m",
      "e", "\"", ",", "\"", "b", "o", "d", "y", "\"", ":", "\"", "L", "i",
      "n", "e", " ", "o", "n", "e", ".", "\\", "n", "L", "i", "n", "e", " ",
      "t", "w", "o", ".", "\"", "}">>

\* the title field of MochiJson
MochiJsonTitle ==
    <<"M", "o", "c", "h", "i", " ", "n", "e", "e", "d", "s", " ", "a", " ",
      "h", "o", "m", "e">>

\* the body field of MochiJson, decoded
MochiJsonBody ==
    <<"L", "i", "n", "e", " ", "o", "n", "e", ".", "\n", "L", "i", "n", "e",
      " ", "t", "w", "o", ".">>

\* a JSON object with title and text
TextJson ==
    <<"{", "\"", "t", "i", "t", "l", "e", "\"", ":", "\"", "T", "\"", ",",
      "\"", "t", "e", "x", "t", "\"", ":", "\"", "B", "\"", "}">>

\* a JSON object cut short
BrokenJson ==
    <<"{", "\"", "t", "i", "t", "l", "e", "\"", ":", " ", "\"", "M", "o">>

\* one line
SingleLine ==
    <<"M", "e", "e", "t">>

\* one line with white space around it
PaddedLine ==
    <<" ", "M", "e", "e", "t", " ", "\n">>

\* both labels, in upper and in lower case
Labeled ==
    <<"T", "I", "T", "L", "E", ":", " ", "M", "o", "c", "h", "i", "\n", "b",
      "o", "d", "y", ":", "\n", "L", "i", "n", "e", " ", "o", "n", "e", ".",
      "\n">>

\* padded lines with blank lines between them
Padded ==
    <<" ", "M", "o", "c", "h", "i", " ", "\n", "\n", " ", " ", "i", "s", " ",
      "g", "e", "n", "t", "l", "e", ".", " ", "\n", " ", "\n", "n", "a", "p",
      "s", ".", " ", "\n">>

\* one line of 3000 characters
LongLine == [i \in 1..3000 |-> "x"]

\* a reply without output_text, whose output carries two output_text items
OutputItems ==
    [kind |-> "ok", text |-> <<>>, output |-> <<SingleLine, MochiTitle>>, error |-> ""]

ReplyTexts ==
    {<<>>, MochiLines, MochiJson, TextJson, BrokenJson, SingleLine, PaddedLine, Labeled,
     Padded, LongLine}

ReplyReplies ==
    {Ok(t) : t \in ReplyTexts} \cup {OutputItems, Failed("insufficient_quota"), Unreachable}

\* MAX_OUTPUT_CHARS unset, "12" and "4"
ReplyEnvs ==
    {[TheEnv EXCEPT !.MAX_OUTPUT_CHARS = m] : m \in {<<>>, <<"1", "2">>, <<"4">>}}

ReplyRequests == {Good(TokA, AddrX)}

-----------------------------------------------------------------------------
(* Settings with one required setting missing, and what the upstream       *)
(* answers to a call without a credential                                  *)

ConfigEnvs ==
    {[TheEnv EXCEPT !.ALLOWED_ORIGIN = ""],
     [TheEnv EXCEPT !.ALLOWED_TOKENS = <<>>],
     [TheEnv EXCEPT !.OPENAI_API_KEY = ""]}

ConfigReplies == {Failed("invalid_api_key"), Unreachable}

-----------------------------------------------------------------------------
(* Requests that differ in their creativity *)

CreativityNumbers == {-20, -1, 0, 1, 5, 15, 50, 99, 100, 101, 150}

Creativities ==
    {Num(n) : n \in CreativityNumbers} \cup {NoCreativity, NullCreativity, NotANumeral}

CreativityRequests ==
    {Post(AddrX, JsonWith(TokA, Fields("undefined"), c)) : c \in Creativities}

\* allow-lists as an operator may write them: "a, b,", "ab", " a ", ",,"
\* and the empty one
AllowLists ==
    {<<"a", ",", " ", "b", ",">>, <<"a", "b">>, <<" ", "a", " ">>, <<",", ",">>, <<>>}

TokenEnvs == {[TheEnv EXCEPT !.ALLOWED_TOKENS = raw] : raw \in AllowLists}

\* supplied tokens: entries, a prefix of one, padded ones, a blank one, none
SuppliedTokens ==
    {<<"a">>, <<"b">>, <<"a", "b">>, <<" ", "a">>, <<"a", " ">>, <<" ">>, <<>>}

TokenRequests ==
    {Post(AddrX, Json(tok, Fields("undefined"))) : tok \in SuppliedTokens}
        \cup {Post(AddrX, AbsentBody), Post(AddrX, JsonNull)}

\* parsed bodies with a valid token: every field a value, every field empty,
\* every field missing, with each shape of temperament; and no inputs at all
PromptInputs ==
    {FieldsAll(s, t) : s \in {"v", "", "undefined"},
                       t \in {"undefined", "string", "array", "emptyArray"}}
        \cup {NoInputs}

PromptRequests == {Post(AddrX, Json(TokA, inputs)) : inputs \in PromptInputs}

\* the settings as configured, without an allowed origin, without an
\* allow-list, and with an allow-list of empty entries
ClosedEnvs ==
    {TheEnv, [TheEnv EXCEPT !.ALLOWED_ORIGIN = ""],
     [TheEnv EXCEPT !.ALLOWED_TOKENS = <<>>],
     [TheEnv EXCEPT !.ALLOWED_TOKENS = <<",", " ", ",">>]}

\* the settings with and without an admin password
ClientEnvs == {TheEnv, [TheEnv EXCEPT !.ADMIN_PASSWORD = ""]}

\* what the user types into the prompt: the password, another one, nothing
Passwords == {"pw", "bad", ""}

\* the items a deletion can be asked for: those the history shows
Shown == Range(client.history)

\* in the history specification: the oldest of them
ShownOldest ==
    IF client.history = <<>> THEN {} ELSE {client.history[Len(client.history)]}

-----------------------------------------------------------------------------
(* Specifications *)

Init ==
    /\ target \in Targets
    /\ env = TheEnv
    /\ now = 0
    /\ tokenBuckets = <<>>
    /\ ipBuckets = <<>>
    /\ slots = [s \in {1} |-> IdleSlot]
    /\ last = NoLast
    /\ log = EmptyBag
    /\ client = NoClient

\* the wide specification: every shape of request, few limiter checks, one instant
Next ==
    \/ \E req \in WideRequests : NetlifyHandler(1, req, MaxChecksWide)
    \/ \E req \in WideRequests : WorkerFetch(1, req, MaxChecksWide)
    \/ WorkerBodyRead(1)
    \/ \E reply \in Replies : UpstreamSettles(1, reply)
    \/ ReadErrorText(1)
    \/ ReadReply(1)

Spec == Init /\ [][Next]_vars

\* the window specification: one key, driven over the ceiling, as time passes
NextWindow ==
    \/ Tick
    \/ \E req \in WindowRequests : NetlifyHandler(1, req, MaxChecks)
    \/ \E req \in WindowRequests : WorkerFetch(1, req, MaxChecks)
    \/ WorkerBodyRead(1)
    \/ \E reply \in Replies : UpstreamSettles(1, reply)
    \/ ReadErrorText(1)
    \/ ReadReply(1)

SpecWindow == Init /\ [][NextWindow]_vars

\* the keys specification: two tokens and two addresses at one instant
NextKeys ==
    \/ \E req \in KeysRequests : NetlifyHandler(1, req, MaxChecks)
    \/ \E req \in KeysRequests : WorkerFetch(1, req, MaxChecks)
    \/ WorkerBodyRead(1)
    \/ \E reply \in Replies : UpstreamSettles(1, reply)
    \/ ReadErrorText(1)
    \/ ReadReply(1)

SpecKeys == Init /\ [][NextKeys]_vars

\* the state after construction, under one of the settings envs
InitWith(envs) ==
    /\ target \in Targets
    /\ env \in envs
    /\ now = 0
    /\ tokenBuckets = <<>>
    /\ ipBuckets = <<>>
    /\ slots = [s \in {1} |-> IdleSlot]
    /\ last = NoLast
    /\ log = EmptyBag
    /\ client = NoClient

\* the reply specification: one admitted request, every shape of upstream
\* text, three character budgets
InitReply == InitWith(ReplyEnvs)

NextReply ==
    \/ \E req \in ReplyRequests : NetlifyHandler(1, req, MaxChecksWide)
    \/ \E req \in ReplyRequests : WorkerFetch(1, req, MaxChecksWide)
    \/ WorkerBodyRead(1)
    \/ \E reply \in ReplyReplies : UpstreamSettles(1, reply)
    \/ ReadErrorText(1)
    \/ ReadReply(1)

SpecReply == InitReply /\ [][NextReply]_vars

\* the creativity specification: admitted requests of every creativity
NextCreativity ==
    \/ \E req \in CreativityRequests : NetlifyHandler(1, req, MaxChecksWide)
    \/ \E req \in CreativityRequests : WorkerFetch(1, req, MaxChecksWide)
    \/ WorkerBodyRead(1)
    \/ \E reply \in Replies : UpstreamSettles(1, reply)
    \/ ReadErrorText(1)
    \/ ReadReply(1)

SpecCreativity == Init /\ [][NextCreativity]_vars

\* the configuration specification: one required setting is missing
InitConfig == InitWith(ConfigEnvs)

NextConfig ==
    \/ \E req \in WindowRequests : NetlifyHandler(1, req, MaxChecksWide)
    \/ \E req \in WindowRequests : WorkerFetch(1, req, MaxChecksWide)
    \/ WorkerBodyRead(1)
    \/ \E reply \in ConfigReplies : UpstreamSettles(1, reply)
    \/ ReadErrorText(1)

SpecConfig == InitConfig /\ [][NextConfig]_vars

\* the token specification: every supplied token against every allow-list
InitTokens == InitWith(TokenEnvs)

NextTokens ==
    \/ \E req \in TokenRequests : NetlifyHandler(1, req, MaxChecksWide)
    \/ \E req \in TokenRequests : WorkerFetch(1, req, MaxChecksWide)
    \/ WorkerBodyRead(1)
    \/ \E reply \in Replies : UpstreamSettles(1, reply)
    \/ ReadErrorText(1)
    \/ ReadReply(1)

SpecTokens == InitTokens /\ [][NextTokens]_vars

\* the concurrency specification: invocations for one token from one address
\* overlap at one instant; each runs from one suspension point to the next
\* without interruption, as the event loop runs it, and ends when its
\* upstream call does (what follows the call does not touch the limiter)
InitConcurrent ==
    /\ target \in Targets
    /\ env = TheEnv
    /\ now = 0
    /\ tokenBuckets = <<>>
    /\ ipBuckets = <<>>
    /\ slots = [s \in 1..MaxInFlight |-> IdleSlot]
    /\ last = NoLast
    /\ log = EmptyBag
    /\ client = NoClient

\* the free slot a new invocation takes
FreeSlot(s) == slots[s].pc = "idle" /\ \A r \in 1..(s - 1) : slots[r].pc # "idle"

NextConcurrent ==
    \/ \E s \in 1..MaxInFlight :
          FreeSlot(s) /\ NetlifyHandler(s, Good(TokA, AddrX), MaxChecks)
    \/ \E s \in 1..MaxInFlight :
          FreeSlot(s) /\ WorkerFetch(s, Good(TokA, AddrX), MaxChecks)
    \/ \E s \in 1..MaxInFlight : WorkerBodyRead(s)
    \/ \E s \in 1..MaxInFlight : UpstreamSettles(s, Unreachable)

SpecConcurrent == InitConcurrent /\ [][NextConcurrent]_vars

\* the prompt specification: admitted requests with every shape of inputs
NextPrompt ==
    \/ \E req \in PromptRequests : NetlifyHandler(1, req, MaxChecksWide)
    \/ \E req \in PromptRequests : WorkerFetch(1, req, MaxChecksWide)
    \/ WorkerBodyRead(1)
    \/ \E reply \in Replies : UpstreamSettles(1, reply)
    \/ ReadErrorText(1)
    \/ ReadReply(1)

SpecPrompt == Init /\ [][NextPrompt]_vars

\* the empty-configuration specification: every shape of request against
\* settings that lack the origin or the allow-list
InitClosed == InitWith(ClosedEnvs)

SpecClosed == InitClosed /\ [][Next]_vars

\* the client specification: a few generations, clears and deletions, with
\* every interleaving of their awaits, as the admin cache ages
InitClient ==
    /\ target = "netlify"
    /\ env \in ClientEnvs
    /\ now = ClientStart
    /\ tokenBuckets = <<>>
    /\ ipBuckets = <<>>
    /\ slots = [s \in {1} |-> IdleSlot]
    /\ last = NoLast
    /\ log = EmptyBag
    /\ client = NoClient

NextClient ==
    \/ ClientTick
    \/ HandleGenerate(MaxGenerations)
    \/ \E ok \in BOOLEAN : GenerateSettles(ok)
    \/ \E password \in Passwords : HandleRemoval("clear", 0, password, MaxRemovals)
    \/ \E id \in Shown, password \in Passwords :
          HandleRemoval("delete", id, password, MaxRemovals)
    \/ \E reachable \in BOOLEAN : AdminSettles(reachable)

SpecClient == InitClient /\ [][NextClient]_vars

\* the history specification: generations past the capacity of the history,
\* with a clear or a deletion of its oldest item
InitHistory ==
    /\ target = "netlify"
    /\ env = TheEnv
    /\ now = ClientStart
    /\ tokenBuckets = <<>>
    /\ ipBuckets = <<>>
    /\ slots = [s \in {1} |-> IdleSlot]
    /\ last = NoLast
    /\ log = EmptyBag
    /\ client = NoClient

NextHistory ==
    \/ HandleGenerate(MaxHistoryItems)
    \/ \E ok \in BOOLEAN : GenerateSettles(ok)
    \/ HandleRemoval("clear", 0, "pw", MaxHistoryRemovals)
    \/ \E id \in ShownOldest : HandleRemoval("delete", id, "pw", MaxHistoryRemovals)
    \/ \E reachable \in BOOLEAN : AdminSettles(reachable)

SpecHistory == InitHistory /\ [][NextHistory]_vars

-----------------------------------------------------------------------------
(* What the properties are stated in: the history of the limiter, counted  *)
(* from the log and not from the limiter's own maps.                       *)

RECURSIVE CopiesOver(_, _)
\* the number of log entries, with their multiplicity, among the entries es
CopiesOver(bag, es) ==
    IF es = {} THEN 0
    ELSE LET e == CHOOSE x \in es : TRUE
         IN  CopiesIn(e, bag) + CopiesOver(bag, es \ {e})

\* the earlier checks of a key (idx 1: the token, idx 2: the address)
Earlier(chk, idx, key) == {e \in BagToSet(chk.before) : e[idx] = key}

\* those of them less than 60 s before the check
Recent(chk, idx, key) == {e \in Earlier(chk, idx, key) : chk.t - e[3] < 60000}

\* the check is the n-th of its token (of its address) within the trailing 60 s
TokenSeen(chk) == 1 + CopiesOver(chk.before, Recent(chk, 1, chk.token))

IpSeen(chk) == 1 + CopiesOver(chk.before, Recent(chk, 2, chk.ip))

\* the timestamps a key's earlier checks recorded
Stamps(chk, idx, key) == {e[3] : e \in Earlier(chk, idx, key)}

StampCount(chk, idx, key, t) ==
    CopiesOver(chk.before, {e \in Earlier(chk, idx, key) : e[3] = t})

FirstStamp(chk, idx, key) ==
    CHOOSE m \in Stamps(chk, idx, key) : \A x \in Stamps(chk, idx, key) : m <= x

LastStamp(chk, idx, key) ==
    CHOOSE m \in Stamps(chk, idx, key) : \A x \in Stamps(chk, idx, key) : m >= x

\* the second recorded timestamp of a key with at least two earlier checks
SecondStamp(chk, idx, key) ==
    LET first == FirstStamp(chk, idx, key)
        rest  == Stamps(chk, idx, key) \ {first}
    IN  IF StampCount(chk, idx, key, first) >= 2 THEN first
        ELSE CHOOSE m \in rest : \A x \in rest : m <= x

\* the key was driven over the ceiling: 13 checks, all inside one window
DrivenOver(chk, idx, key) ==
    /\ CopiesOver(chk.before, Earlier(chk, idx, key)) = 13
    /\ LastStamp(chk, idx, key) - FirstStamp(chk, idx, key) < 60000

\* the timestamps of a key that the limiter's map holds and are still in the window
Live(map, key, t) ==
    IF key \in DOMAIN map
    THEN Len(SelectSeq(map[key].timestamps, LAMBDA x : t - x < 60000))
    ELSE 0

\* the invocations the properties speak of: the one that ended last, the one in flight
Ended == last.kind # "none"

InFlight(s) == slots[s].pc # "idle"

FromAllowedOrigin(req) ==
    req.headers.origin # "" /\ req.headers.origin = env.ALLOWED_ORIGIN

ToEndpoint(req) == target = "netlify" \/ req.path = "/generate"

CarriesAllowOrigin(resp) == HasHeader(resp, "Access-Control-Allow-Origin")

-----------------------------------------------------------------------------
(* Properties *)

\* C1: a request whose Origin header is absent or differs from the configured
\* allowed origin is rejected, whatever its method, body and token (403; the
\* worker answers 404 first for a non-preflight request to another path), and
\* its response carries no Access-Control-Allow-Origin; a response that
\* carries the header answers a request from the allowed origin.  No such
\* request is ever left in flight, checked by the limiter or sent upstream.
C1_OriginGate ==
    /\ Ended =>
        /\ CarriesAllowOrigin(last.resp) => FromAllowedOrigin(last.req)
        /\ ~FromAllowedOrigin(last.req) =>
              /\ last.kind = "response"
              /\ last.resp.status =
                    (IF last.req.method # "OPTIONS" /\ ~ToEndpoint(last.req)
                     THEN 404 ELSE 403)
              /\ ~CarriesAllowOrigin(last.resp)
              /\ ~last.chk.reached
              /\ last.calls = 0
    /\ \A s \in DOMAIN slots : InFlight(s) => FromAllowedOrigin(slots[s].req)

\* C1 witness: a well-formed POST with a valid token, from another origin, was
\* answered 403 without the header.
C1_Witness ==
    /\ last.kind = "response"
    /\ last.req.method = "POST"
    /\ last.req.path = "/generate"
    /\ last.req.headers.origin = OtherOrigin
    /\ last.req.body = Json(TokA, Fields("string"))
    /\ last.resp.status = 403
    /\ ~CarriesAllowOrigin(last.resp)

\* a POST to the endpoint, from the allowed origin, whose body parses
StructurallyValidPost(req) ==
    /\ req.method = "POST"
    /\ ToEndpoint(req)
    /\ FromAllowedOrigin(req)
    /\ req.body.kind = "json"

\* the token a parsed body supplies (none: the empty token)
SuppliedToken(req) ==
    IF req.body.payload.kind = "object" THEN req.body.payload.token ELSE <<>>

\* C2: a structurally valid POST (to the endpoint, from the allowed origin,
\* with a body that parses) whose token is not in the allow-list is answered
\* 401 whatever the state of the limiter, and the limiter is not consulted.
C2_BadTokenIs401 ==
    /\ (Ended /\ StructurallyValidPost(last.req) /\ SuppliedToken(last.req) \notin ValidTokens)
          => /\ last.kind = "response"
             /\ last.resp.status = 401
             /\ ~last.chk.reached
    /\ \A s \in DOMAIN slots :
          (InFlight(s) /\ slots[s].pc # "body" /\ slots[s].req.body.kind = "json")
              => SuppliedToken(slots[s].req) \in ValidTokens

\* C2 witness: an invalid token was answered 401 from an address whose window
\* is exhausted (the limiter would turn the next request from it away).
C2_Witness ==
    /\ last.kind = "response"
    /\ StructurallyValidPost(last.req)
    /\ SuppliedToken(last.req) = TokBad
    /\ last.resp.status = 401
    /\ Live(ipBuckets, clientAddress(target, last.req.headers), now) >= 12
    /\ Live(tokenBuckets, TokA, now) >= 12

\* what the limiter decided for an invocation, against the log
DecidedByCount(chk) ==
    chk.reached =>
        /\ chk.tokenOk = (TokenSeen(chk) <= 12)
        /\ chk.ipOk = (IpSeen(chk) <= 12)

\* C3: for every key, with ceiling 12 and window 60 s: a check that is the
\* n-th for its key within the trailing 60 s passes that key's check when
\* n <= 12 and fails it when n >= 13; so the first 12 requests of a window
\* pass and the 13th is rejected.
C3_ThirteenthRejected ==
    /\ DecidedByCount(last.chk)
    /\ \A s \in DOMAIN slots : DecidedByCount(slots[s].chk)

\* C3 witness: a 13th request within the window was rejected, 429.
C3_Witness ==
    /\ last.kind = "response"
    /\ last.chk.reached
    /\ TokenSeen(last.chk) = 13
    /\ ~last.chk.tokenOk
    /\ last.resp.status = 429


\* the statement of C4 as the specification words it, for the token's key and
\* the address's key of one check
AdmittedPastFirst(chk) ==
    chk.reached =>
        /\ (DrivenOver(chk, 1, chk.token) /\ chk.t - FirstStamp(chk, 1, chk.token) > 60000)
              => chk.tokenOk
        /\ (DrivenOver(chk, 2, chk.ip) /\ chk.t - FirstStamp(chk, 2, chk.ip) > 60000)
              => chk.ipOk

\* C4 as stated (refuted): after 13 requests of a key within one window, a
\* request made once the clock is past 60 s from the key's first recorded
\* timestamp passes the key's check, wherever in the window the 13 fell.
C4_Original ==
    /\ AdmittedPastFirst(last.chk)
    /\ \A s \in DOMAIN slots : AdmittedPastFirst(slots[s].chk)

\* the amended statement, for the token's key and the address's key
AdmittedPastSecond(chk) ==
    chk.reached =>
        /\ DrivenOver(chk, 1, chk.token)
              => (chk.tokenOk <=> chk.t - SecondStamp(chk, 1, chk.token) >= 60000)
        /\ DrivenOver(chk, 2, chk.ip)
              => (chk.ipOk <=> chk.t - SecondStamp(chk, 2, chk.ip) >= 60000)

\* C4 (amended): after 13 requests of a key within one window, the next
\* request of the key passes the key's check exactly when the clock has
\* advanced 60 s or more from the key's second recorded timestamp, so that at
\* most 11 of the 13 are still in the window; being past 60 s from the first
\* alone is not enough.
C4_AdmittedPastSecond ==
    /\ AdmittedPastSecond(last.chk)
    /\ \A s \in DOMAIN slots : AdmittedPastSecond(slots[s].chk)

\* C4 witness: a key driven over the ceiling, with its 13 timestamps at two
\* instants, passes its check again 60 s after the second timestamp.
C4_Witness ==
    \E s \in DOMAIN slots :
        /\ slots[s].chk.reached
        /\ DrivenOver(slots[s].chk, 1, slots[s].chk.token)
        /\ FirstStamp(slots[s].chk, 1, slots[s].chk.token)
              < LastStamp(slots[s].chk, 1, slots[s].chk.token)
        /\ slots[s].chk.t - SecondStamp(slots[s].chk, 1, slots[s].chk.token) >= 60000
        /\ slots[s].chk.tokenOk
        /\ slots[s].pc = "upstream"

\* the limiter let the invocation through
WithinBoth(chk) == TokenSeen(chk) <= 12 /\ IpSeen(chk) <= 12

\* C5: a request that passed the gatekeeper is admitted iff the token-keyed
\* and the address-keyed check both pass: with either key over its ceiling
\* the answer is 429 and the upstream is not called; with both within, the
\* request goes on (no 429) and an invocation in flight past the limiter has
\* both within.
C5_AdmittedIffBoth ==
    /\ (Ended /\ last.chk.reached) =>
          IF WithinBoth(last.chk)
          THEN ~(last.kind = "response" /\ last.resp.status = 429) /\ Len(last.stages) > 2
          ELSE /\ last.kind = "response"
               /\ last.resp.status = 429
               /\ last.calls = 0
               /\ last.upstream = NoUpstream
    /\ \A s \in DOMAIN slots :
          (InFlight(s) /\ slots[s].pc # "body") =>
              /\ slots[s].chk.reached
              /\ WithinBoth(slots[s].chk)

\* C5 witness: a request whose token is within its ceiling was answered 429
\* because its address was over its own.
C5_Witness ==
    /\ last.kind = "response"
    /\ last.chk.reached
    /\ TokenSeen(last.chk) <= 12
    /\ IpSeen(last.chk) > 12
    /\ last.resp.status = 429

\* token a, other than the check's, is exhausted by requests from the check's address
ExhaustedFromSameAddress(chk, a) ==
    /\ a # chk.token
    /\ CopiesOver(chk.before,
                  {e \in Recent(chk, 1, a) : e[2] = chk.ip}) >= 13

\* some other token (address) has 13 or more checks in the trailing 60 s
OtherTokenExhausted(chk) ==
    \E e \in BagToSet(chk.before) :
        e[1] # chk.token /\ CopiesOver(chk.before, Recent(chk, 1, e[1])) >= 13

OtherAddressExhausted(chk) ==
    \E e \in BagToSet(chk.before) :
        e[2] # chk.ip /\ CopiesOver(chk.before, Recent(chk, 2, e[2])) >= 13

\* C6 as stated (refuted): with token A exhausted, a request with another
\* token B from the address A's requests came from is still admitted (B's own
\* key being within its ceiling); and an exhausted address leaves the
\* address-keyed check of another address alone.
C6_Original ==
    (Ended /\ last.chk.reached) =>
        /\ ((\E e \in BagToSet(last.chk.before) : ExhaustedFromSameAddress(last.chk, e[1]))
              /\ TokenSeen(last.chk) <= 12)
              => ~(last.kind = "response" /\ last.resp.status = 429)
        /\ (OtherAddressExhausted(last.chk) /\ IpSeen(last.chk) <= 12) => last.chk.ipOk

\* the amended statement for one check
KeysIndependent(chk) ==
    chk.reached =>
        /\ OtherTokenExhausted(chk) => (chk.tokenOk <=> TokenSeen(chk) <= 12)
        /\ OtherAddressExhausted(chk) => (chk.ipOk <=> IpSeen(chk) <= 12)

\* C6 (amended): exhausting token A does not affect the token-keyed check of
\* another token B, and exhausting one address does not affect the
\* address-keyed check of another address; but B is admitted only if its
\* address is within its ceiling too, so when the 13 requests that exhausted
\* A came from the address B shares, B is rejected 429.
C6_KeysIndependent ==
    /\ KeysIndependent(last.chk)
    /\ \A s \in DOMAIN slots : KeysIndependent(slots[s].chk)
    /\ (Ended /\ last.chk.reached
          /\ \E e \in BagToSet(last.chk.before) : ExhaustedFromSameAddress(last.chk, e[1]))
          => (last.kind = "response" /\ last.resp.status = 429)

\* C6 witness: with another token exhausted from the same address, a token's
\* first request passed the token-keyed check and was rejected for its address.
C6_Witness ==
    /\ last.kind = "response"
    /\ last.chk.reached
    /\ \E e \in BagToSet(last.chk.before) : ExhaustedFromSameAddress(last.chk, e[1])
    /\ TokenSeen(last.chk) = 1
    /\ last.chk.tokenOk
    /\ ~last.chk.ipOk
    /\ last.resp.status = 429


\* a POST to the endpoint, from the allowed origin, whose body is text that
\* does not parse
MalformedPost(req) ==
    /\ req.method = "POST"
    /\ ToEndpoint(req)
    /\ FromAllowedOrigin(req)
    /\ req.body.kind = "malformed"

\* a malformed POST that has ended was answered 400 before the limiter
MalformedIs400 ==
    /\ (Ended /\ MalformedPost(last.req)) =>
          /\ last.kind = "response"
          /\ last.resp.status = 400
          /\ ~last.chk.reached
          /\ last.calls = 0
    /\ \A s \in DOMAIN slots :
          (InFlight(s) /\ MalformedPost(slots[s].req)) => slots[s].pc = "body"

\* the step in which a malformed POST ends leaves the limiter's maps alone
MalformedSpendsNothing ==
    (MalformedPost(last'.req) /\ last'.kind # "none"
        /\ (last' # last
               \/ \E s \in DOMAIN slots :
                     /\ slots[s].pc = "body" /\ slots'[s].pc = "idle"
                     /\ slots[s].req = last'.req))
        => (tokenBuckets' = tokenBuckets /\ ipBuckets' = ipBuckets)

\* C7: a POST (to the endpoint, from the allowed origin) whose body does not
\* parse is always answered 400, before any token or rate-limit check: also
\* when the limiter is exhausted, and without spending a slot of any key.
C7_MalformedIs400 == [](MalformedIs400) /\ [][MalformedSpendsNothing]_vars

\* C7 witness: a malformed POST was answered 400 from an address, and beside a
\* token, whose windows are exhausted.
C7_Witness ==
    /\ last.kind = "response"
    /\ MalformedPost(last.req)
    /\ last.resp.status = 400
    /\ Live(ipBuckets, clientAddress(target, last.req.headers), now) >= 12
    /\ Live(tokenBuckets, TokA, now) >= 12

AllStages == <<"gatekeeper", "limiter", "prompt", "upstream", "normalizer">>

IsPrefix(s, t) == Len(s) <= Len(t) /\ s = SubSeq(t, 1, Len(s))

\* the request passed every check of the gatekeeper and of the limiter
PassedEveryCheck(req, chk) ==
    /\ FromAllowedOrigin(req)
    /\ req.method = "POST"
    /\ ToEndpoint(req)
    /\ req.body.kind = "json"
    /\ SuppliedToken(req) \in ValidTokens
    /\ chk.reached
    /\ chk.token = SuppliedToken(req)
    /\ WithinBoth(chk)

\* the stages an invocation ran, against its request and what it returned
InSequence(req, chk, stages, calls) ==
    /\ IsPrefix(stages, AllStages)
    /\ calls = (IF Len(stages) >= 4 THEN 1 ELSE 0)
    /\ Len(stages) >= 2 <=> chk.reached
    /\ Len(stages) >= 3 => PassedEveryCheck(req, chk)

\* C8: the stages run in the order gatekeeper, limiter, prompt builder,
\* upstream invoker, output normalizer; the upstream is called for a request
\* only after it passed the origin check, the method check, the body parse,
\* the token check and both limiter checks; and a stage that ends the request
\* (403, 404, 405, 400, 401 from the gatekeeper, 429 from the limiter, an
\* upstream failure) is the last stage that ran.
C8_StrictSequence ==
    /\ Ended =>
          /\ InSequence(last.req, last.chk, last.stages, last.calls)
          /\ (last.kind = "response" /\ last.resp.status \in {204, 400, 401, 403, 404, 405})
                => last.stages = <<"gatekeeper">>
          /\ (last.kind = "response" /\ last.resp.status = 429)
                => last.stages = <<"gatekeeper", "limiter">>
          /\ (last.kind = "response" /\ last.resp.status = 502)
                => last.stages = SubSeq(AllStages, 1, 4)
          /\ (last.kind = "response" /\ last.resp.status = 200) => last.stages = AllStages
    /\ \A s \in DOMAIN slots :
          InFlight(s) =>
              /\ InSequence(slots[s].req, slots[s].chk, slots[s].stages, slots[s].calls)
              /\ slots[s].pc # "body" => slots[s].calls = 1

\* C8 witness: a request went through all five stages and was answered 200.
C8_Witness ==
    /\ last.kind = "response"
    /\ last.resp.status = 200
    /\ last.stages = AllStages
    /\ last.calls = 1
    /\ PassedEveryCheck(last.req, last.chk)

\* the limiter admitted the invocation
Admitted(chk) == chk.reached /\ chk.tokenOk /\ chk.ipOk

\* C9 as stated (refuted by the code): the upstream is called at most once
\* for a request, exactly once when the request is admitted, and not again
\* after an upstream failure.
C9_OneUpstreamCall ==
    /\ Ended =>
          /\ last.calls <= 1
          /\ Admitted(last.chk) => last.calls = 1
          /\ last.upstream.kind \in {"error", "unreachable"} => last.calls = 1
    /\ \A s \in DOMAIN slots :
          InFlight(s) =>
              /\ slots[s].calls <= 1
              /\ Admitted(slots[s].chk) => slots[s].calls = 1

\* C10 as stated (refuted by the code): whenever the upstream call fails, by a
\* non-success response or by being unreachable, the request ends with a 502
\* response that carries the upstream's error text.
C10_UpstreamFailureIs502 ==
    (Ended /\ last.upstream.kind \in {"error", "unreachable"}) =>
        /\ last.kind = "response"
        /\ last.resp.status = 502
        /\ last.resp.body.type = "error"
        /\ last.resp.body.detail = last.upstream.error

\* the upstream answered the invocation with a successful reply
Succeeded(upstream) == upstream.kind = "ok"

GenerationRequest(req) == req.method = "POST" /\ ToEndpoint(req)

\* the response is a failure in the documented form: { error } with one of
\* the documented statuses
DocumentedFailure(resp) ==
    /\ resp.status \in {400, 401, 403, 405, 429, 500, 502}
    /\ resp.body.type = "error"
    /\ resp.body.error # ""

\* C12 as stated (refuted by the code): every POST to the endpoint whose
\* upstream call, if any, completed ends with a response: the 200 with its
\* result, or a JSON body { error } with status 400, 401, 403, 405, 429, 500
\* or 502; none ends with an uncaught exception, also not a valid-token POST
\* whose body lacks the inputs object.
C12_EveryPostAnswered ==
    (Ended /\ GenerationRequest(last.req) /\ last.upstream.kind # "unreachable") =>
        /\ last.kind = "response"
        /\ \/ last.resp.status = 200 /\ last.resp.body.type = "result"
           \/ DocumentedFailure(last.resp)

\* a required setting (the allowed origin, the allow-list of tokens, the
\* upstream credential) is missing
SettingMissing(e) ==
    e.ALLOWED_ORIGIN = "" \/ e.ALLOWED_TOKENS = <<>> \/ e.OPENAI_API_KEY = ""

\* C13 as stated (refuted by the code): with a required setting missing, a
\* generation request (a POST to the endpoint) is answered with status 500,
\* never with a client-fault status.
C13_MissingSettingIs500 ==
    (Ended /\ SettingMissing(env) /\ GenerationRequest(last.req)) =>
        /\ last.kind = "response"
        /\ last.resp.status = 500

\* the one 429 of a deployment, for a request from the allowed origin
TooManyRequests ==
    [status  |-> 429,
     headers |-> {<<"Content-Type", "application/json">>,
                  <<"Access-Control-Allow-Origin", env.ALLOWED_ORIGIN>>},
     body    |-> ErrorBody(ErrorText(target, 429), "")]

\* C14: the 429 is the same response (status, headers, body) whether the
\* token-keyed check, the address-keyed check or both failed: every request
\* the limiter turns away gets the one response that depends on the
\* deployment and the allowed origin alone.
C14_Same429 ==
    (Ended /\ last.chk.reached /\ ~(last.chk.tokenOk /\ last.chk.ipOk)) =>
        /\ last.kind = "response"
        /\ last.resp = TooManyRequests

\* C14 witness: a request whose token was over its ceiling and whose address
\* was within its own got the 429.
C14_Witness ==
    /\ last.kind = "response"
    /\ last.chk.reached
    /\ ~last.chk.tokenOk
    /\ last.chk.ipOk
    /\ IpSeen(last.chk) <= 12
    /\ last.resp = TooManyRequests

\* the character budget in force
EffectiveCap == maxOutputChars(env)

\* C15: in every 200 response the text is at most the effective character
\* budget long (MAX_OUTPUT_CHARS, 2500 when unset), whatever the upstream
\* reply: longer than the budget, within it, in lines or with labels.
C15_TextWithinCap ==
    (Ended /\ last.kind = "response" /\ last.resp.status = 200) =>
        Len(last.resp.body.text) <= EffectiveCap

\* C15 witness: with MAX_OUTPUT_CHARS unset, a reply of 3000 characters was
\* answered 200 with a text of 2500 characters.
C15_Witness ==
    /\ env.MAX_OUTPUT_CHARS = <<>>
    /\ last.kind = "response"
    /\ last.resp.status = 200
    /\ last.upstream = Ok(LongLine)
    /\ Len(last.resp.body.text) = 2500

\* C16 as stated (refuted by the code): in every 200 response that carries a
\* title, the title is at most 120 characters long, also when the first line
\* of the upstream reply is longer than 120 characters.
C16_TitleWithin120 ==
    (Ended /\ last.kind = "response" /\ last.resp.status = 200 /\ last.resp.body.hasTitle) =>
        Len(last.resp.body.title) <= 120

\* the result the claim names for a reply that is the JSON object MochiJson
\* or TextJson
JsonFieldsReturned ==
    /\ last.upstream = Ok(MochiJson) =>
          (last.resp.body.title = MochiJsonTitle /\ last.resp.body.text = MochiJsonBody)
    /\ last.upstream = Ok(TextJson) =>
          (last.resp.body.title = <<"T">> /\ last.resp.body.text = <<"B">>)

\* C17 as stated (refuted by the code): for an upstream text that is a JSON
\* object with title and body (or text) fields, within the budget, the
\* normalizer returns those fields as title and text: for
\* {"title":"Mochi needs a home","body":"Line one.\nLine two."} the title
\* "Mochi needs a home" and the two lines "Line one." and "Line two.".
C17_JsonObject ==
    (Ended /\ target = "netlify" /\ last.kind = "response" /\ last.resp.status = 200
        /\ Len(last.upstream.text) <= EffectiveCap)
        => JsonFieldsReturned

\* the text carries neither label and no JSON object
Unlabeled(text) ==
    /\ LabelStarts(text, TitleLabel) = {}
    /\ LabelStarts(text, BodyLabel) = {}
    /\ \A i \in 1..Len(text) : text[i] # "{"

\* the lines of the text that hold a character other than white space
NonBlankLines(text) ==
    SelectSeq(Lines(text), LAMBDA line : \E i \in 1..Len(line) : ~IsSpace(line[i]))

\* white space does not begin or end the text
Stripped(text) == text = <<>> \/ (~IsSpace(text[1]) /\ ~IsSpace(text[Len(text)]))

\* part is what remains of whole without the white space around it
StrippedOf(part, whole) ==
    /\ Stripped(part)
    /\ \E i \in 1..(Len(whole) + 1) :
          /\ i + Len(part) - 1 <= Len(whole)
          /\ SubSeq(whole, i, i + Len(part) - 1) = part
          /\ \A k \in 1..Len(whole) :
                (k < i \/ k >= i + Len(part)) => IsSpace(whole[k])

\* C18: on netlify, for an upstream text within the budget with no labels,
\* no JSON and at least two non-blank lines, the title is the first
\* non-blank line and the text the remaining non-blank lines rejoined with
\* newlines (title and text without the white space around them); for
\* "Meet Mochi\nMochi is gentle.\nMochi loves naps." the title is
\* "Meet Mochi" and the text "Mochi is gentle.\nMochi loves naps.".
C18_PositionalFallback ==
    (Ended /\ target = "netlify" /\ last.kind = "response" /\ last.resp.status = 200
        /\ Len(last.upstream.text) <= EffectiveCap
        /\ Unlabeled(last.upstream.text)
        /\ Len(NonBlankLines(last.upstream.text)) >= 2) =>
        /\ StrippedOf(last.resp.body.title, NonBlankLines(last.upstream.text)[1])
        /\ StrippedOf(last.resp.body.text,
                      Join(Tail(NonBlankLines(last.upstream.text)), "\n"))
        /\ last.upstream.text = MochiLines =>
              (last.resp.body.title = MochiTitle /\ last.resp.body.text = MochiRest)

\* C18 witness: the three lines of the example came back as title and text.
C18_Witness ==
    /\ target = "netlify"
    /\ last.kind = "response"
    /\ last.resp.status = 200
    /\ last.upstream = Ok(MochiLines)
    /\ last.resp.body.title = MochiTitle
    /\ last.resp.body.text = MochiRest

\* the body of the whole upstream reply, before any truncation: on netlify
\* what parseTitleAndBody makes of the unsliced text, on the worker the text
SourceBody(upstream) ==
    IF target = "netlify" THEN parseTitleAndBody(rawText(target, upstream)).text
    ELSE rawText(target, upstream)

\* C19 as stated (refuted by the code): a body longer than the budget is
\* returned as exactly its first budget characters: a body of 3000 characters
\* under a budget of 2500 as its first 2500, and in general the text of a 200
\* is the first EffectiveCap characters of the reply's body when the body is
\* longer than that.
C19_HardSlice ==
    (Ended /\ last.kind = "response" /\ last.resp.status = 200) =>
        /\ (last.upstream = Ok(LongLine) /\ env.MAX_OUTPUT_CHARS = <<>>) =>
              last.resp.body.text = SubSeq(LongLine, 1, 2500)
        /\ Len(SourceBody(last.upstream)) > EffectiveCap =>
              last.resp.body.text = SubSeq(SourceBody(last.upstream), 1, EffectiveCap)

\* the creativity a request supplies
Supplied(req) == req.body.payload.creativity

\* the temperature is a number in [0.20, 0.90], and 0.20 for creativity 0
\* (or none), 0.90 for creativity 100
TemperatureBounded(req, sent) ==
    /\ sent.temperature.kind = "number"
    /\ sent.temperature.hundredths >= 20
    /\ sent.temperature.hundredths <= 90
    /\ Supplied(req) \in {Num(0), NoCreativity, NullCreativity}
          => sent.temperature.hundredths = 20
    /\ Supplied(req) = Num(100) => sent.temperature.hundredths = 90

\* of two requests sent upstream, the one with the larger creativity does not
\* have the smaller temperature
TemperatureMonotonic(req1, sent1, req2, sent2) ==
    (Supplied(req1).kind = "number" /\ Supplied(req2).kind = "number"
        /\ Supplied(req1).n <= Supplied(req2).n)
        => sent1.temperature.hundredths <= sent2.temperature.hundredths

\* C20 as stated (refuted by the code): for every request sent upstream,
\* whatever creativity it supplies (in 0..100, outside, none, or a value that
\* is no number), the temperature sent lies in [0.20, 0.90]; creativity 0
\* gives 0.20 and 100 gives 0.90; and a larger creativity never gives a
\* smaller temperature.
C20_TemperatureBounded ==
    /\ (Ended /\ last.calls = 1) => TemperatureBounded(last.req, last.sent)
    /\ \A s \in DOMAIN slots :
          slots[s].calls = 1 =>
              /\ TemperatureBounded(slots[s].req, slots[s].sent)
              /\ (Ended /\ last.calls = 1) =>
                    /\ TemperatureMonotonic(last.req, last.sent, slots[s].req, slots[s].sent)
                    /\ TemperatureMonotonic(slots[s].req, slots[s].sent, last.req, last.sent)

\* the request left the limiter and the upstream alone
Untouched(inv) == ~inv.chk.reached /\ inv.calls = 0 /\ inv.upstream = NoUpstream

\* the preflight answer the claim describes: CORS headers that authorize the
\* method POST alone and the Content-Type header, for 24 hours
PreflightForPostOnly ==
    [status  |-> 204,
     headers |-> {<<"Access-Control-Allow-Origin", env.ALLOWED_ORIGIN>>,
                  <<"Access-Control-Allow-Methods", "POST">>,
                  <<"Access-Control-Allow-Headers", "Content-Type">>,
                  <<"Access-Control-Max-Age", "86400">>},
     body    |-> NoBody]

\* C21 as stated (refuted by the code): an OPTIONS request from the allowed
\* origin is answered 204 with an empty body and CORS headers that authorize
\* exactly the method POST and the Content-Type header, with a max age of 24
\* hours (86400 s); one from any other origin is answered with a bare 403,
\* empty body, no headers; neither touches the limiter or the upstream, and
\* neither is left in flight.
C21_Preflight ==
    /\ (Ended /\ last.req.method = "OPTIONS") =>
          /\ last.kind = "response"
          /\ Untouched(last)
          /\ last.resp = (IF FromAllowedOrigin(last.req)
                          THEN PreflightForPostOnly
                          ELSE [status |-> 403, headers |-> {}, body |-> NoBody])
    /\ \A s \in DOMAIN slots : InFlight(s) => slots[s].req.method # "OPTIONS"

\* C22 as stated (refuted by the code): every response, the preflight
\* answers and the rejections included, has the header
\* Content-Type: application/json.
C22_AlwaysJson ==
    (Ended /\ last.kind = "response") =>
        <<"Content-Type", "application/json">> \in last.resp.headers

\* the origin check comes first: 403 for every request from another origin;
\* then the method: 405 for a request from the allowed origin that is
\* neither POST nor OPTIONS
OriginThenMethod(req, kind, resp) ==
    /\ ~FromAllowedOrigin(req) => (kind = "response" /\ resp.status = 403)
    /\ (FromAllowedOrigin(req) /\ req.method \notin {"POST", "OPTIONS"})
          => (kind = "response" /\ resp.status = 405)

\* C23 as stated (refuted by the code): a request from a disallowed origin
\* is answered 403 whatever its method, path, body and token, and a request
\* from the allowed origin that is neither POST nor OPTIONS is answered 405
\* whatever its path, body and token.
C23_OriginBeforeMethod == Ended => OriginThenMethod(last.req, last.kind, last.resp)

\* the entries of an allow-list as its operator reads it: what stands
\* between two commas (or an end of the list), without the white space
\* around it, when something remains
IsEntry(tok, raw) ==
    /\ tok # <<>>
    /\ \E i \in 1..(Len(raw) + 1), j \in 0..Len(raw) :
          /\ i <= j + 1
          /\ i = 1 \/ raw[i - 1] = ","
          /\ j = Len(raw) \/ raw[j + 1] = ","
          /\ \A k \in i..j : raw[k] # ","
          /\ StrippedOf(tok, SubSeq(raw, i, j))

\* a POST to the endpoint from the allowed origin whose body parses (on
\* netlify an absent body is read as the empty object)
ReachesTokenCheck(req) ==
    /\ FromAllowedOrigin(req)
    /\ req.method = "POST"
    /\ ToEndpoint(req)
    /\ req.body.kind = "json" \/ (target = "netlify" /\ req.body.kind = "absent")

Unauthorized == last.kind = "response" /\ last.resp.status = 401

\* C24: a request that reaches the token check passes it exactly when the
\* token it supplies equals an entry of the allow-list (an entry being what
\* stands between commas, trimmed, when not empty): a prefix of an entry, a
\* padded token and an empty or missing token are answered 401, whatever
\* the allow-list.
C24_ExactToken ==
    (Ended /\ ReachesTokenCheck(last.req)) =>
        (Unauthorized <=> ~IsEntry(SuppliedToken(last.req), env.ALLOWED_TOKENS))

\* the token a is refused where the allow-list is "ab"
C24_Witness ==
    /\ Ended /\ ReachesTokenCheck(last.req)
    /\ env.ALLOWED_TOKENS = <<"a", "b">>
    /\ SuppliedToken(last.req) = <<"a">>
    /\ Unauthorized

\* the check is the most recent one the limiter made
LatestCheck(chk) == chk.reached /\ Checks = BagCardinality(chk.before) + 1

\* the earlier checks of the key within the trailing 60 s that were rejected
\* for the key (idx 1: the token, field 4; idx 2: the address, field 5)
RecentRejected(chk, idx, key) == {e \in Recent(chk, idx, key) : ~e[idx + 3]}

\* the key's entry holds one timestamp for every check of the key within the
\* trailing 60 s, rejected or not, the newest being this check's
Recorded(map, key, seen, t) ==
    /\ key \in DOMAIN map
    /\ Len(map[key].timestamps) = seen
    /\ map[key].timestamps[seen] = t

RejectedCounts(chk) ==
    /\ LatestCheck(chk) =>
          /\ Recorded(tokenBuckets, chk.token, TokenSeen(chk), chk.t)
          /\ Recorded(ipBuckets, chk.ip, IpSeen(chk), chk.t)
    /\ chk.reached =>
          /\ (TokenSeen(chk) > 12 /\ RecentRejected(chk, 1, chk.token) # {}) => ~chk.tokenOk
          /\ (IpSeen(chk) > 12 /\ RecentRejected(chk, 2, chk.ip) # {}) => ~chk.ipOk

\* C25: a rejected request still records its timestamp: after every check
\* the key's entry holds one timestamp for each check of the key within the
\* trailing 60 s, the rejected ones included; so a client that keeps sending
\* after its 12th request stays rejected while 12 or more of its checks,
\* rejected ones counted, lie within the trailing 60 s.
C25_RejectedStillRecorded ==
    /\ RejectedCounts(last.chk)
    /\ \A s \in DOMAIN slots : RejectedCounts(slots[s].chk)

\* C25 witness: the 14th request in a row was rejected after a rejected
\* 13th, and the token's entry holds 14 timestamps.
C25_Witness ==
    /\ last.kind = "response" /\ last.resp.status = 429
    /\ LatestCheck(last.chk)
    /\ TokenSeen(last.chk) = 14
    /\ RecentRejected(last.chk, 1, last.chk.token) # {}
    /\ Len(tokenBuckets[last.chk.token].timestamps) = 14

\* the checks of a key so far, and those of them the key's check let pass
\* (idx 1: the token, field 4; idx 2: the address, field 5)
ChecksOf(idx, key) == CopiesOver(log, {e \in BagToSet(log) : e[idx] = key})

PassesOf(idx, key) ==
    CopiesOver(log, {e \in BagToSet(log) : e[idx] = key /\ e[idx + 3]})

\* no check of the key was lost: the entry holds one timestamp per check,
\* and of n checks exactly min(n, 12) passed
NoneLost(map, idx, key) ==
    /\ ChecksOf(idx, key) > 0 =>
          (key \in DOMAIN map /\ Len(map[key].timestamps) = ChecksOf(idx, key))
    /\ PassesOf(idx, key) = Min(ChecksOf(idx, key), 12)

\* C26: the limiter's read-prune-append-compare of one invocation is never
\* interleaved with another's: of the n requests of a fresh key that overlap
\* within one window, however their steps interleave, exactly min(n, 12)
\* pass the key's check, and the key's entry holds n timestamps.
C26_ExactlyTwelvePass ==
    /\ NoneLost(tokenBuckets, 1, TokA)
    /\ NoneLost(ipBuckets, 2, AddrX)

\* C26 witness: of 14 checks 12 passed; the 14th was rejected while two
\* admitted invocations were awaiting their upstream calls.
C26_Witness ==
    /\ ChecksOf(1, TokA) = 14
    /\ PassesOf(1, TokA) = 12
    /\ last.kind = "response" /\ last.resp.status = 429 /\ LatestCheck(last.chk)
    /\ \E s, r \in DOMAIN slots :
          s # r /\ slots[s].pc = "upstream" /\ slots[r].pc = "upstream"

\* every entry of the map holds at least one timestamp
NeverEmpty(map) == \A k \in DOMAIN map : Len(map[k].timestamps) >= 1

\* C27: the key sets of both maps only grow (no step removes a key, however
\* old its timestamps), and every entry present holds at least one timestamp.
C27_KeysOnlyGrow ==
    /\ [](NeverEmpty(tokenBuckets) /\ NeverEmpty(ipBuckets))
    /\ [][/\ DOMAIN tokenBuckets \subseteq DOMAIN tokenBuckets'
          /\ DOMAIN ipBuckets \subseteq DOMAIN ipBuckets']_vars

\* C27 witness: a key is still present 60 s or more after its last check,
\* with timestamps that are all outside the window.
C27_Witness ==
    /\ TokA \in DOMAIN tokenBuckets
    /\ \A i \in 1..Len(tokenBuckets[TokA].timestamps) :
          now - tokenBuckets[TokA].timestamps[i] >= 60000
    /\ AddrX \in DOMAIN ipBuckets
    /\ last.chk.reached

\* the answers of the gatekeeper: the preflight answer, 403, 405, 400, 401
GatekeeperAnswer(kind, resp) ==
    kind = "response" /\ resp.status \in {204, 403, 405, 400, 401}

\* a request the gatekeeper turns away: a preflight, or a request to the
\* endpoint with a wrong origin, a wrong method, a body that does not parse
\* (the worker: also an absent one) or a token outside the allow-list
TurnedAway(req) ==
    \/ req.method = "OPTIONS"
    \/ /\ ToEndpoint(req)
       /\ \/ ~FromAllowedOrigin(req)
          \/ req.method # "POST"
          \/ req.body.kind = "malformed"
          \/ target = "worker" /\ req.body.kind = "absent"
          \/ SuppliedToken(req) \notin ValidTokens

\* such a request ends in an answer of the gatekeeper, and an invocation that
\* ends in one has not been to the limiter
GatekeeperOnly ==
    /\ Ended =>
          /\ TurnedAway(last.req) => GatekeeperAnswer(last.kind, last.resp)
          /\ GatekeeperAnswer(last.kind, last.resp) => ~last.chk.reached
    /\ \A s \in DOMAIN slots :
          (InFlight(s) /\ TurnedAway(slots[s].req)) => ~slots[s].chk.reached

\* a step in which an invocation ends in an answer of the gatekeeper, or in
\* which the limiter's history does not grow, leaves both maps as they were
GatekeeperSpendsNothing ==
    /\ (last' # last /\ GatekeeperAnswer(last'.kind, last'.resp))
          => (tokenBuckets' = tokenBuckets /\ ipBuckets' = ipBuckets)
    /\ (log' = log) => (tokenBuckets' = tokenBuckets /\ ipBuckets' = ipBuckets)

\* C28: the gatekeeper does not touch shared state: a request that ends in a
\* preflight answer, 403, 405, 400 or 401 leaves both maps of the limiter
\* exactly as they were, so a request with a wrong origin, a wrong method, a
\* malformed body or an invalid token never spends a slot of any key.
C28_GatekeeperPure == []GatekeeperOnly /\ [][GatekeeperSpendsNothing]_vars

\* C28 witness: a GET with a valid token was answered 405 while the token's
\* entry, written by an earlier request, holds one timestamp.
C28_Witness ==
    /\ last.kind = "response" /\ last.resp.status = 405
    /\ SuppliedToken(last.req) = TokA
    /\ TokA \in DOMAIN tokenBuckets
    /\ Len(tokenBuckets[TokA].timestamps) = 1
    /\ Checks = 1

\* an admitted request whose upstream text (the reply's output_text), within
\* the budget, carries no label, no JSON object and at most one non-blank line
SingleLineReply ==
    /\ Ended /\ target = "netlify" /\ last.kind = "response" /\ last.resp.status = 200
    /\ last.upstream.output = <<>>
    /\ Len(last.upstream.text) <= EffectiveCap
    /\ Unlabeled(last.upstream.text)
    /\ Len(NonBlankLines(last.upstream.text)) <= 1

\* C29 as stated (refuted by the code): for an upstream text with no second
\* non-blank line (and no labels or JSON), the returned text is the entire
\* original text and the returned title is empty.
C29_SingleLine ==
    SingleLineReply =>
        (last.resp.body.text = last.upstream.text /\ last.resp.body.title = <<>>)

\* the field lines of the prompt, in their order
FieldOrder ==
    <<"Cat name", "Age", "Sex", "Neutered/Spayed", "Temperament", "Rescue story",
      "Health notes", "Special needs", "Contact">>

IsFieldLabel(label) == \E i \in 1..Len(FieldOrder) : FieldOrder[i] = label

\* the parts of the line with the label (<<>>: no such line)
PartsOf(prompt, label) ==
    IF \E i \in 1..Len(prompt) : prompt[i].label = label
    THEN prompt[CHOOSE i \in 1..Len(prompt) : prompt[i].label = label].parts
    ELSE <<>>

\* the field is blank or missing
Blank(x) == x \in {"undefined", ""}

\* the line of a blank field reads Not specified (None for special needs)
DefaultFor(x, prompt, label, default) ==
    Blank(x) => (PartsOf(prompt, label) # <<>> /\ PartsOf(prompt, label)[1] = default)

\* every field line is there, in the fixed order, and a blank field reads
\* Not specified (None for special needs)
Rendered(inputs, prompt) ==
    /\ SelectSeq([i \in 1..Len(prompt) |-> prompt[i].label], IsFieldLabel) = FieldOrder
    /\ DefaultFor(inputs.catName, prompt, "Cat name", "Not specified")
    /\ DefaultFor(inputs.ageValue, prompt, "Age", "Not specified")
    /\ DefaultFor(inputs.sex, prompt, "Sex", "Not specified")
    /\ DefaultFor(inputs.neutered, prompt, "Neutered/Spayed", "Not specified")
    /\ (inputs.temperament \in {"undefined", "emptyArray"})
          => PartsOf(prompt, "Temperament") = <<"Not specified">>
    /\ DefaultFor(inputs.rescueStory, prompt, "Rescue story", "Not specified")
    /\ DefaultFor(inputs.healthNotes, prompt, "Health notes", "Not specified")
    /\ DefaultFor(inputs.specialNeeds, prompt, "Special needs", "None")
    /\ DefaultFor(inputs.contact, prompt, "Contact", "Not specified")

\* C30 as stated (refuted by the code): for every parsed body the prompt is
\* built (building it never fails: an admitted request goes on to the
\* upstream call) and holds every field line in the same fixed order, each
\* blank or missing field (name, age, sex, neuter status, temperament,
\* rescue story, health notes, contact) reading "Not specified" and a blank
\* special-needs field "None".
C30_PromptComplete ==
    /\ (Ended /\ Admitted(last.chk)) =>
          (last.calls = 1 /\ Rendered(last.req.body.payload.inputs, last.sent.prompt))
    /\ \A s \in DOMAIN slots :
          (InFlight(s) /\ Admitted(slots[s].chk)) =>
              (slots[s].calls = 1
               /\ Rendered(slots[s].req.body.payload.inputs, slots[s].sent.prompt))

\* what the worker's handler does with a request up to its call of fetch:
\* its first stretch and, when it goes on to read the body, its second
workerToFetch(e, req, tb, ib, lg, t) ==
    LET first == workerSync(e, req, tb, ib)
    IN  IF first.kind = "body"
        THEN fromParse("worker", e, req,
                       getAllowedOrigin(req.headers.origin, e.ALLOWED_ORIGIN),
                       tb, ib, lg, t)
        ELSE first

\* the two handlers, given the request in the same state of the limiter,
\* end it alike (the same status, or both go on to the upstream call, or
\* both throw) and leave the same maps
SameOutcome(req) ==
    LET n == netlifySync(env, req, tokenBuckets, ipBuckets, log, now)
        w == workerToFetch(env, req, tokenBuckets, ipBuckets, log, now)
    IN  /\ n.kind = w.kind
        /\ n.kind = "respond" => n.resp.status = w.resp.status
        /\ n.tokenBuckets = w.tokenBuckets
        /\ n.ipBuckets = w.ipBuckets

\* the requests to the generate endpoint
EndpointRequests == {req \in WideRequests : req.path = "/generate"}

\* C31 as stated (refuted by the code): the two targets implement the same
\* mediator: in every state of the limiter, reached by whatever sequence of
\* requests, a request to the generate endpoint gets the same status from
\* the netlify handler and from the worker (after the upstream call both
\* answer 502 or 200 alike) and both leave the same limiter maps.
C31_SameMediator == \A req \in EndpointRequests : SameOutcome(req)

\* the checks of the key that passed the key's check at an instant in the
\* 60 s from instant a on (idx 1: the token, field 4; idx 2: the address,
\* field 5)
PassesWithin(idx, key, a) ==
    CopiesOver(log, {e \in BagToSet(log) :
                        e[idx] = key /\ e[idx + 3] /\ a <= e[3] /\ e[3] - a < 60000})

\* the instants and the keys of the checks so far
Instants == {e[3] : e \in BagToSet(log)}

KeysOf(idx) == {e[idx] : e \in BagToSet(log)}

\* C32: for every key of either keyspace and every interval of 60 s (from an
\* instant on, up to but not including the instant 60 s later), at most 12
\* requests carrying the key pass the key's check inside the interval; so at
\* most 12 upstream calls per token and per address are started in it.
C32_TwelvePerWindow ==
    \A a \in Instants :
        /\ \A key \in KeysOf(1) : PassesWithin(1, key, a) <= 12
        /\ \A key \in KeysOf(2) : PassesWithin(2, key, a) <= 12

\* C32 witness: the token passed 14 checks in all, 12 of them in one window
\* and 2 in the next.
C32_Witness ==
    /\ PassesOf(1, TokA) = 14
    /\ PassesWithin(1, TokA, 0) = 12
    /\ PassesWithin(1, TokA, 60000) = 2

\* no check of the key was made in the 60 s before this one
SilentFor(chk, idx, key) == Recent(chk, idx, key) = {}

Recovers(chk) ==
    chk.reached =>
        /\ SilentFor(chk, 1, chk.token) => chk.tokenOk
        /\ SilentFor(chk, 2, chk.ip) => chk.ipOk

\* C33: if no request reached the limiter for a key during at least 60 s,
\* the next request for the key passes the key's check, whatever number of
\* admitted and rejected requests the key had accumulated before.
C33_RecoversAfterSilence ==
    /\ Recovers(last.chk)
    /\ \A s \in DOMAIN slots : Recovers(slots[s].chk)

\* C33 witness: a token with 13 checks behind it, the last of them rejected,
\* passes its check exactly 60 s after the last of them.
C33_Witness ==
    \E s \in DOMAIN slots :
        /\ slots[s].chk.reached
        /\ CopiesOver(slots[s].chk.before, Earlier(slots[s].chk, 1, TokA)) = 13
        /\ \E e \in Earlier(slots[s].chk, 1, TokA) : ~e[4]
        /\ SilentFor(slots[s].chk, 1, TokA)
        /\ slots[s].chk.t - LastStamp(slots[s].chk, 1, TokA) = 60000
        /\ slots[s].chk.tokenOk
        /\ slots[s].pc = "upstream"

\* the number of timestamps of the key in the map
Held(map, key) == IF key \in DOMAIN map THEN Len(map[key].timestamps) ELSE 0

\* the check the step adds to the log
Added(e) == CopiesIn(e, log') = CopiesIn(e, log) + 1

\* a step in which a request reaches the limiter leaves, in the token's entry
\* and in the address's entry, the timestamps still inside the window and
\* one more, whatever the two checks say, and no other entry changes
AppendsToBoth ==
    (BagCardinality(log') = BagCardinality(log) + 1) =>
        \E e \in BagToSet(log') :
            /\ Added(e)
            /\ Held(tokenBuckets', e[1]) = Live(tokenBuckets, e[1], now) + 1
            /\ Held(ipBuckets', e[2]) = Live(ipBuckets, e[2], now) + 1
            /\ \A k \in DOMAIN tokenBuckets \ {e[1]} : tokenBuckets'[k] = tokenBuckets[k]
            /\ \A k \in DOMAIN ipBuckets \ {e[2]} : ipBuckets'[k] = ipBuckets[k]

\* C34: every request that reaches the limiter appends exactly one timestamp
\* to its token's entry and exactly one to its address's entry, also when
\* the token's check has already failed; so a request rejected for its
\* token still spends the address's budget, and one rejected for its
\* address still spends the token's.
C34_BothAppended == [][AppendsToBoth]_vars

\* C34 witness: a request rejected for its token alone, from an address
\* within its budget, is counted in the address's entry.
C34_Witness ==
    /\ last.kind = "response" /\ last.resp.status = 429
    /\ LatestCheck(last.chk)
    /\ ~last.chk.tokenOk /\ last.chk.ipOk
    /\ Held(ipBuckets, last.chk.ip) = IpSeen(last.chk)
    /\ IpSeen(last.chk) < 12

\* the allow-list has no entry: it is unset, or holds commas and white space
NoEntries(raw) == \A i \in 1..Len(raw) : raw[i] = "," \/ IsSpace(raw[i])

OriginUnset == env.ALLOWED_ORIGIN = ""

\* with such settings nothing reaches the limiter or the upstream
NothingAdmitted ==
    (OriginUnset \/ NoEntries(env.ALLOWED_TOKENS)) =>
        /\ Ended => (~last.chk.reached /\ last.calls = 0)
        /\ \A s \in DOMAIN slots : ~slots[s].chk.reached /\ slots[s].calls = 0
        /\ tokenBuckets = <<>> /\ ipBuckets = <<>> /\ log = EmptyBag

\* C35 as stated (refuted): without an allowed origin every request to the
\* endpoint is answered 403, and without an entry in the allow-list every
\* POST to the endpoint is answered 401; nothing reaches the limiter or the
\* upstream.
C35_Original ==
    /\ NothingAdmitted
    /\ (Ended /\ ToEndpoint(last.req)) =>
          /\ OriginUnset => (last.kind = "response" /\ last.resp.status = 403)
          /\ (NoEntries(env.ALLOWED_TOKENS) /\ last.req.method = "POST")
                => (last.kind = "response" /\ last.resp.status = 401)

\* C35 (amended): without an allowed origin every request to the endpoint
\* (OPTIONS included, also one without an Origin header) is answered 403;
\* without an entry in the allow-list every POST to the endpoint is
\* rejected, with 401 when it reaches the token check (allowed origin, a
\* body that parses) and with the 403 or 400 of the earlier checks
\* otherwise; in both cases nothing reaches the limiter or the upstream.
C35_FailsClosed ==
    /\ NothingAdmitted
    /\ (Ended /\ ToEndpoint(last.req)) =>
          /\ OriginUnset => (last.kind = "response" /\ last.resp.status = 403)
          /\ (NoEntries(env.ALLOWED_TOKENS) /\ last.req.method = "POST") =>
                /\ last.kind = "response"
                /\ last.resp.status =
                      (IF ~FromAllowedOrigin(last.req) THEN 403
                       ELSE IF ReachesTokenCheck(last.req) THEN 401 ELSE 400)

\* C35 witness: with an allow-list of empty entries, a POST with the token a
\* from the allowed origin was answered 401.
C35_Witness ==
    /\ env.ALLOWED_TOKENS = <<",", " ", ",">>
    /\ last.kind = "response" /\ last.resp.status = 401
    /\ ReachesTokenCheck(last.req)
    /\ SuppliedToken(last.req) = TokA

\* a POST from the allowed origin without a body, or with an empty one
BodilessPost(req) ==
    req.method = "POST" /\ FromAllowedOrigin(req) /\ req.body.kind = "absent"

\* C36: on netlify a POST from the allowed origin with an absent or empty
\* body is read as the empty object and rejected 401 for its missing token,
\* never 400; it does not reach the limiter.
C36_EmptyBodyIs401 ==
    (Ended /\ target = "netlify" /\ BodilessPost(last.req)) =>
        /\ last.kind = "response"
        /\ last.resp.status = 401
        /\ last.resp.body = ErrorBody(ErrorText("netlify", 401), "")
        /\ ~last.chk.reached

\* C36 witness: netlify answered 401 to a POST without a body.
C36_Witness ==
    /\ target = "netlify"
    /\ last.kind = "response" /\ BodilessPost(last.req)
    /\ last.resp.status = 401

\* the item is in the history, in the component state and in localStorage
Kept(id) == id \in Range(client.history) /\ id \in Range(client.stored)

\* the item is in neither
Gone(id) == id \notin Range(client.history) /\ id \notin Range(client.stored)

\* C37 as stated (refuted by the code): whatever the interleaving of a
\* generation in flight with a deletion or a clear, and of a deletion that
\* awaits its verification with a generation that completes, no update is
\* lost: a deleted item never reappears and a generated item is never
\* dropped, in the component state and in localStorage alike (the history
\* being below its capacity).
C37_NoLostUpdate ==
    Len(client.history) < HistoryCap =>
        /\ \A id \in client.removed : Gone(id)
        /\ \A id \in client.generated \ client.removed : Kept(id)

\* the items are in the order of their generation, the newest first
NewestFirst(items) == \A i, j \in 1..Len(items) : i < j => items[i] > items[j]

\* a generation settles in this step, with a post (Succeeds) or with an
\* error (Fails)
GenerationSucceeds ==
    client.gen.pc = "awaiting" /\ client'.gen.pc = "idle"
        /\ client'.generated # client.generated

GenerationFails ==
    client.gen.pc = "awaiting" /\ client'.gen.pc = "idle"
        /\ client'.generated = client.generated

\* the items shown before the step and no longer after it
Dropped == Range(client.history) \ Range(client'.history)

\* what a generation does to the history: its item comes first, what it
\* drops is older than everything it keeps and is dropped for the capacity,
\* and localStorage holds what the component shows; an error changes nothing
GenerationStep ==
    /\ GenerationSucceeds =>
          /\ client'.history # <<>>
          /\ client'.history[1] = client.nextId
          /\ NewestFirst(client'.history)
          /\ client'.stored = client'.history
          /\ \A d \in Dropped :
                /\ Len(client'.history) = HistoryCap
                /\ \A k \in Range(client'.history) : d < k
    /\ GenerationFails =>
          /\ client'.history = client.history
          /\ client'.stored = client.stored

CachedVerification ==
    client.verifiedAt # 0 /\ now - client.verifiedAt < ADMIN_CACHE_TTL_MS

\* the verification asked for by the pending action settles in this step
VerificationSettles == client.adm.pc = "awaiting" /\ client'.adm.pc = "idle"

\* the password of the pending action is the administrator's
RightPassword ==
    client.adm.password # "" /\ client.adm.password = env.ADMIN_PASSWORD

\* the admin endpoint accepts the password of the pending action in this step
PasswordAccepted ==
    VerificationSettles /\ RightPassword /\ client'.verifiedAt = now

\* the step takes items out of the history otherwise than by a generation
\* reaching the capacity, or counts as a clear or a deletion
HistoryRemoval ==
    /\ ~GenerationSucceeds
    /\ \/ Range(client.history) \ Range(client'.history) # {}
       \/ Range(client.stored) \ Range(client'.stored) # {}
       \/ client'.removals # client.removals
       \/ client'.removed # client.removed

\* removals are verified; the cache is written by an accepted password only;
\* a verification that fails changes neither the history nor the cache
VerifiedRemoval ==
    /\ HistoryRemoval => (CachedVerification \/ PasswordAccepted)
    /\ client'.verifiedAt # client.verifiedAt => PasswordAccepted
    /\ (VerificationSettles /\ (~RightPassword \/ client'.verifiedAt # now)) =>
          /\ client'.history = client.history
          /\ client'.stored = client.stored
          /\ client'.verifiedAt = client.verifiedAt
    /\ (~CachedVerification /\ ~VerificationSettles /\ ~GenerationSucceeds) =>
          /\ client'.history = client.history
          /\ client'.stored = client.stored

\* C39: the history is cleared, or an item deleted, only when the admin
\* endpoint accepted the password in that action or a verification recorded
\* less than 15 minutes earlier is cached; a cancelled prompt and a failed
\* verification leave the history unchanged and do not refresh the cache.
C39_VerifiedRemovalOnly == [][VerifiedRemoval]_vars

\* C39 witness: a removal was made with an accepted password, the cached
\* verification has since expired, and the next removal had to ask for the
\* password again, the history still holding its items.
C39_Witness ==
    /\ client.removals = 1
    /\ client.verifiedAt # 0
    /\ now - client.verifiedAt >= ADMIN_CACHE_TTL_MS
    /\ client.adm.pc = "awaiting"
    /\ client.history # <<>>
    /\ client.stored = client.history
====
